---- MODULE Spec2Model ----
(***************************************************************************)
(* Market-Pulse: the crawler agent (fetch with retry, URL / company-name   *)
(* paths, record shapes) and the analyst agent's company-name cleaning and *)
(* competitor deduplication.                                               *)
(*                                                                         *)
(* Strings are sequences of symbols.  A symbol is either one character     *)
(* ("A", " ", ".") or an indivisible run of word characters ("Acme",       *)
(* "reuters"); "x in y" of Python is the contiguous-subsequence test.      *)
(***************************************************************************)
EXTENDS Integers, Sequences, FiniteSets, TLC

VARIABLES
    pc,          \* position of CrawlerAgent.process: idle, search, fetch, fetched, done
    input,       \* input_data of the running / last process call
    path,        \* "url" or "company": the branch process took
    headers,     \* self.session.headers (the fields the code writes)
    attempt,     \* loop variable of _make_request_with_retry
    n403,        \* 403 answers received in the current _make_request_with_retry call
    sent,        \* headers of the requests sent in the current _make_request_with_retry call
    fetchRet,    \* what the last _make_request_with_retry call returned
    timeline,    \* requests and time.sleep calls of the current _make_request_with_retry call
    company,     \* normalized_name of _process_company_name
    urls,        \* urls of _find_company_urls / _process_company_name
    queryIdx,    \* number of SEARCH_QUERIES already issued
    urlIdx,      \* index in urls of the URL being fetched
    requests,    \* HTTP requests issued by the current process call
    searches,    \* search queries issued by the current process call
    firstUrl,    \* first URL the current process call requested
    result,      \* record returned by process
    rawName,     \* argument of _clean_company_name
    cleanOnce,   \* _clean_company_name(rawName)
    cleanTwice,  \* _clean_company_name(cleanOnce)
    rawList,     \* argument of _clean_competitor_list
    cleanedList, \* result of _clean_competitor_list
    data,        \* input_data of AnalystAgent.process (its deal_info)
    text,        \* text argument of the crawler's text function under check
    arg,         \* its second argument (max_words), 0 when it has none
    textOut,     \* what the text function returned
    urlList,     \* urls argument of _find_best_url
    companyName, \* company_name argument of _find_best_url
    bestUrl,     \* what _find_best_url returned
    phase,       \* "init" before, "done" after the pure operation under check
    stage,          \* position of main.process_opportunity
    extracted_info, \* what crawler.process returned to process_opportunity
    analysis,       \* what analyst.process returned to process_opportunity
    report,         \* what advisor.process returned to process_opportunity
    saved,          \* TRUE once save_report has written the report file
    analysis_store, \* data of the dcc.Store 'analysis-store' of the dashboard
    n_clicks,       \* n_clicks of the Analyze button
    interval_disabled, \* disabled property of the dcc.Interval 'progress-interval'
    in_flight,      \* update_progress callbacks requested and not yet answered
    display,        \* agent step classes and report the dashboard shows
    executions      \* executions[r][k]: agent k has been run for analysis run r

crawlerVars == <<pc, input, path, headers, attempt, n403, sent, fetchRet, timeline, company,
                 urls, queryIdx, urlIdx, requests, searches, firstUrl, result>>
nameVars == <<rawName, cleanOnce, cleanTwice>>
listVars == <<rawList, cleanedList>>
textVars == <<text, arg, textOut>>
urlVars == <<urlList, companyName, bestUrl>>
mainVars == <<stage, extracted_info, analysis, report, saved>>
dashVars == <<analysis_store, n_clicks, interval_disabled, in_flight, display, executions>>
pureVars == <<nameVars, listVars, data, textVars, urlVars, phase, mainVars, dashVars>>
vars == <<crawlerVars, pureVars>>

(***************************************************************************)
(* Bounds of the model.                                                    *)
(***************************************************************************)
NumUserAgents == 2   \* size of the pool the User-Agent is drawn from
MaxNameLen == 5      \* length of the generated company-name strings
MaxList == 3          \* length of the raw competitor list
MaxDeals == 2         \* number of deals in the deal_info given to AnalystAgent.process
MaxTextLen == 6       \* length of the texts given to _truncate_text
MaxWords == 2         \* largest max_words given to _truncate_text
MaxUrls == 3          \* length of the URL list given to _find_best_url
MaxSentences == 2     \* number of sentences in a text given to _extract_structured_data
MaxParagraphs == 2    \* number of paragraphs in a text given to preprocess_press_release
MaxClicks == 2        \* clicks on the Analyze button; a run is numbered by its click
MaxInFlight == 2      \* update_progress callbacks waiting for their answer

(***************************************************************************)
(* Sequences as strings.                                                   *)
(***************************************************************************)
Range(s) == {s[i] : i \in 1..Len(s)}

\* s[i..] starts with w
StartsAt(s, i, w) ==
    /\ i >= 1
    /\ i + Len(w) - 1 <= Len(s)
    /\ \A k \in 1..Len(w) : s[i + k - 1] = w[k]

\* Python: w in s
Contains(s, w) == \E i \in 1..(Len(s) + 1) : StartsAt(s, i, w)

\* symbol classes of Python's re for str patterns: \s, and \w for everything that is
\* neither whitespace nor one of the punctuation symbols
Whitespace == {" ", "\t", "\n"}
Punctuation == {".", ",", "&", "-", "/", "[", "(", ")", "'", "https://", "http://", "www."}
IsSpace(c) == c \in Whitespace
IsWord(c) == c \notin Whitespace /\ c \notin Punctuation

\* str.lower() / re.IGNORECASE on one symbol
LowerSym(c) ==
    CASE c = "A" -> "a"
      [] c = "B" -> "b"
      [] c = "C" -> "c"
      [] c = "D" -> "d"
      [] c = "E" -> "e"
      [] c = "F" -> "f"
      [] c = "G" -> "g"
      [] c = "H" -> "h"
      [] c = "I" -> "i"
      [] c = "J" -> "j"
      [] c = "K" -> "k"
      [] c = "L" -> "l"
      [] c = "M" -> "m"
      [] c = "N" -> "n"
      [] c = "O" -> "o"
      [] c = "P" -> "p"
      [] c = "Q" -> "q"
      [] c = "R" -> "r"
      [] c = "S" -> "s"
      [] c = "T" -> "t"
      [] c = "U" -> "u"
      [] c = "V" -> "v"
      [] c = "W" -> "w"
      [] c = "X" -> "x"
      [] c = "Y" -> "y"
      [] c = "Z" -> "z"
      [] c = "The" -> "the"
      [] c = "An" -> "an"
      [] c = "Acme" -> "acme"
      [] c = "Inc" -> "inc"
      [] c = "Ltd" -> "ltd"
      [] c = "Corporation" -> "corporation"
      [] c = "PLC" -> "plc"
      [] c = "Co" -> "co"
      [] OTHER -> c

Lower(s) == [i \in 1..Len(s) |-> LowerSym(s[i])]

\* str.strip()
RECURSIVE LStrip(_)
LStrip(s) == IF s # <<>> /\ IsSpace(Head(s)) THEN LStrip(Tail(s)) ELSE s
RECURSIVE RStrip(_)
RStrip(s) ==
    IF s # <<>> /\ IsSpace(s[Len(s)]) THEN RStrip(SubSeq(s, 1, Len(s) - 1)) ELSE s
Strip(s) == RStrip(LStrip(s))

\* str.replace(w, r): leftmost non-overlapping occurrences, left to right
RECURSIVE Replace(_, _, _)
Replace(s, w, r) ==
    IF s = <<>> \/ w = <<>> THEN s
    ELSE IF StartsAt(s, 1, w)
         THEN r \o Replace(SubSeq(s, Len(w) + 1, Len(s)), w, r)
         ELSE <<Head(s)>> \o Replace(Tail(s), w, r)

\* ' '.join(s.split()): whitespace runs become one space, none at the ends
RECURSIVE CollapseRuns(_)
CollapseRuns(s) ==
    IF s = <<>> THEN <<>>
    ELSE IF IsSpace(Head(s))
         THEN <<" ">> \o CollapseRuns(LStrip(s))
         ELSE <<Head(s)>> \o CollapseRuns(Tail(s))
SplitJoin(s) == CollapseRuns(Strip(s))

(***************************************************************************)
(* config/crawler_config.py                                                *)
(***************************************************************************)
max_retries == 3

SEARCH_QUERIES == <<"press release", "news update", "announces", "clinical trial results",
                    "partnership announcement", "collaboration news", "license agreement",
                    "acquisition news", "recent developments", "investor update">>

URL_SCORING == [news_domain |-> 5, press_release |-> 4, company_domain |-> 3,
                pipeline_page |-> 2, biotech_domain |-> 1]

WEBSITE_PATTERNS == << <<"press-release">>, <<"news">>, <<"media">>, <<"announcement">>,
                       <<"update">>, <<"pipeline">>, <<"clinical">>, <<"trial">>,
                       <<"results">>, <<"partnership">>, <<"collaboration">>,
                       <<"license">>, <<"acquisition">> >>

NEWS_DOMAINS == { <<"reuters", ".com">>, <<"bloomberg", ".com">>, <<"biospace", ".com">>,
                  <<"fiercebiotech", ".com">>, <<"biopharmadive", ".com">>,
                  <<"endpts", ".com">>, <<"stat", "news", ".com">>,
                  <<"geneng", "news", ".com">>, <<"pharmatimes", ".com">>,
                  <<"pharmalive", ".com">>, <<"bioworld", ".com">>,
                  <<"seekingalpha", ".com">>, <<"business", "wire", ".com">>,
                  <<"globe", "news", "wire", ".com">>, <<"pr", "news", "wire", ".com">> }

BIOTECH_DOMAINS == { <<".com">>, <<".io">>, <<".bio">>, <<".pharma">>, <<".healthcare">> }

\* REQUEST_SETTINGS["headers"], the fields _make_request_with_retry overwrites
DefaultHeaders == [UserAgent |-> 1, Accept |-> "text/html", Referer |-> "none"]

\* indexes of the user_agents list; entry 1 is the configured default User-Agent
UserAgents == 1..NumUserAgents

(***************************************************************************)
(* The world outside the agent: inputs, search results, transport answers. *)
(***************************************************************************)
NoUrl == [host |-> <<>>, path |-> <<>>]
UCompany == [host |-> <<"www.", "acme", ".com">>, path |-> <<"/", "about">>]
UNews == [host |-> <<"www.", "reuters", ".com">>, path |-> <<"/", "news", "/", "acme">>]
UBlog == [host |-> <<"blog", ".org">>, path |-> <<"/", "post">>]

\* url as the string the code sees
UrlString(u) == <<"https://">> \o u.host \o u.path

\* input strings with what urlparse makes of them
Inputs ==
    { [text |-> UrlString(UCompany), scheme |-> "https", netloc |-> UCompany.host,
       rest |-> UCompany.path, parseRaises |-> FALSE],
      [text |-> <<>>, scheme |-> "", netloc |-> <<>>, rest |-> <<>>, parseRaises |-> FALSE],
      [text |-> <<"not", "-", "a", "-", "valid", "-", "url">>, scheme |-> "", netloc |-> <<>>,
       rest |-> <<"not", "-", "a", "-", "valid", "-", "url">>, parseRaises |-> FALSE],
      [text |-> <<"Acme", " ", "Inc", ".">>, scheme |-> "", netloc |-> <<>>,
       rest |-> <<"Acme", " ", "Inc", ".">>, parseRaises |-> FALSE],
      [text |-> <<"https://", "/", "about">>, scheme |-> "https", netloc |-> <<>>,
       rest |-> <<"/", "about">>, parseRaises |-> FALSE],
      [text |-> <<"http://", "[", "acme">>, scheme |-> "", netloc |-> <<>>,
       rest |-> <<>>, parseRaises |-> TRUE] }

NoInput == [text |-> <<>>, scheme |-> "", netloc |-> <<>>, rest |-> <<>>,
            parseRaises |-> FALSE]

\* what one search(query) call yields: an exception or an ordered list of URLs
SearchError == <<NoUrl>>
SearchResults == { SearchError, <<>>, <<UBlog>>, <<UBlog, UNews>> }

PhaseLabels == {"Phase I", "Phase II", "Phase III", "Pre-clinical", "IND", "Approved"}
DealTypes == {"partnership", "license", "acquisition", "investment"}
IndicationTypes == {"cancer", "autoimmune", "neurological", "infectious", "rare_disease"}

\* response bodies, by what the extraction finds in them
NoBody == [id |-> "none", parseOk |-> TRUE, phases |-> {}, indications |-> {},
           deals |-> {}, dealsWith |-> {}]
Bodies ==
    { [id |-> "plain", parseOk |-> TRUE, phases |-> {}, indications |-> {},
       deals |-> {}, dealsWith |-> {}],
      [id |-> "press", parseOk |-> TRUE, phases |-> {"Phase I", "Phase II"},
       indications |-> {"cancer"}, deals |-> {"partnership", "license"},
       dealsWith |-> {"partnership"}],
      [id |-> "huge", parseOk |-> FALSE, phases |-> {}, indications |-> {},
       deals |-> {}, dealsWith |-> {}] }

RequestsExceptions == {"Timeout", "ConnectionError", "RequestException"}

\* what session.get does on one attempt
Outcomes ==
    { [kind |-> "status", status |-> 200, body |-> b, msg |-> ""] : b \in Bodies }
    \cup { [kind |-> "status", status |-> s, body |-> NoBody, msg |-> ""] : s \in {403, 404, 500} }
    \cup { [kind |-> k, status |-> 0, body |-> NoBody, msg |-> k] : k \in RequestsExceptions }
    \cup { [kind |-> "Exception", status |-> 0, body |-> NoBody, msg |-> "API Error"] }

(***************************************************************************)
(* agents/crawler.py: pure parts                                           *)
(***************************************************************************)
\* _is_url: urlparse, scheme and netloc both non-empty; any exception gives False
_is_url(i) == IF i.parseRaises THEN FALSE ELSE i.scheme # "" /\ i.netloc # <<>>

NormalizeSuffixes == << <<"Inc", ".">>, <<"Inc">>, <<"LLC">>, <<"Ltd", ".">>, <<"Ltd">>,
                        <<"Corp", ".">>, <<"Corp">>, <<"PLC">>, <<"plc">> >>

RECURSIVE RemoveSuffixesFrom(_, _)
RemoveSuffixesFrom(name, k) ==
    IF k > Len(NormalizeSuffixes) THEN name
    ELSE RemoveSuffixesFrom(Strip(Replace(name, NormalizeSuffixes[k], <<>>)), k + 1)

WordOrSpace(c) == IsWord(c) \/ IsSpace(c)

\* _normalize_company_name
_normalize_company_name(company_name) ==
    SplitJoin(SelectSeq(RemoveSuffixesFrom(company_name, 1), WordOrSpace))

PressReleasePatterns == { <<"press-release">>, <<"news">>, <<"media">> }

\* the score _find_best_url gives one URL
UrlScore(url, company_name) ==
    LET domain == Lower(url.host)
        low == Lower(UrlString(url))
        hits == {k \in 1..Len(WEBSITE_PATTERNS) : Contains(low, WEBSITE_PATTERNS[k])}
    IN  (IF \E d \in NEWS_DOMAINS : Contains(domain, d) THEN URL_SCORING.news_domain ELSE 0)
      + (IF \E q \in PressReleasePatterns : Contains(low, q)
         THEN URL_SCORING.press_release ELSE 0)
      + (IF Contains(domain, Lower(company_name)) THEN URL_SCORING.company_domain ELSE 0)
      + Cardinality(hits) * URL_SCORING.pipeline_page
      + (IF \E x \in BIOTECH_DOMAINS : Contains(domain, x)
         THEN URL_SCORING.biotech_domain ELSE 0)

\* scored_urls: the (url, score) pairs in list order
ScoredUrls(us, company_name) ==
    [i \in 1..Len(us) |-> [url |-> us[i], score |-> UrlScore(us[i], company_name)]]

\* list.sort(key=lambda x: x[1], reverse=True): a stable sort, so a pair goes behind
\* every pair of the same or a higher score that stood before it
RECURSIVE InsertByScore(_, _)
InsertByScore(sorted, x) ==
    IF sorted = <<>> THEN <<x>>
    ELSE IF Head(sorted).score >= x.score
         THEN <<Head(sorted)>> \o InsertByScore(Tail(sorted), x)
         ELSE <<x>> \o sorted
RECURSIVE SortByScore(_, _)
SortByScore(pairs, sorted) ==
    IF pairs = <<>> THEN sorted
    ELSE SortByScore(Tail(pairs), InsertByScore(sorted, Head(pairs)))

\* _find_best_url taking the last of the pairs sorted by ascending score
FindBestUrlAscending(us, company_name) ==
    IF us = <<>> THEN NoUrl
    ELSE LET pairs == ScoredUrls(us, company_name)
             top == CHOOSE i \in 1..Len(us) :
                        /\ \A j \in 1..Len(us) : pairs[j].score <= pairs[i].score
                        /\ \A j \in (i + 1)..Len(us) : pairs[j].score < pairs[i].score
         IN  us[top]

\* _find_best_url: None for an empty list, else the first URL of the sorted pairs
_find_best_url(us, company_name) ==
    IF us = <<>> THEN NoUrl
    ELSE SortByScore(ScoredUrls(us, company_name), <<>>)[1].url

\* the dictionaries process returns
NoResult == [status |-> "none", keys |-> {}, pipeline_keys |-> {}, deal_keys |-> {},
             error |-> <<>>, url |-> NoUrl]
ErrorRecord(parts) == [status |-> "error", keys |-> {"error"}, pipeline_keys |-> {},
                       deal_keys |-> {}, error |-> parts, url |-> NoUrl]
\* an exception leaving a function
Raised(msg) == [status |-> "raised", keys |-> {}, pipeline_keys |-> {}, deal_keys |-> {},
                error |-> <<msg>>, url |-> NoUrl]

ExtractionError == "text exceeds the NER model's maximum length"

\* _process_url, the dictionary built at the end of the try block
UrlRecord(url, body) ==
    [status |-> "ok",
     keys |-> {"source_url", "pipeline_info", "deal_info", "entities", "raw_text"},
     pipeline_keys |-> {"phases", "indications"},
     deal_keys |-> {"partnerships", "licenses", "acquisitions", "investments"},
     error |-> <<>>, url |-> url]

\* _extract_information: _extract_pipeline_info keeps a phase label per match,
\* _extract_deal_info a deal type per match whose context has "with <name>"
_extract_information(body, url) ==
    IF body.parseOk
    THEN [status |-> "ok", keys |-> {"url", "pipeline_info", "deal_info", "entities"},
          pipeline_keys |-> body.phases, deal_keys |-> body.dealsWith,
          error |-> <<>>, url |-> url]
    ELSE ErrorRecord(<<ExtractionError>>)

\* what a finished _make_request_with_retry call handed back
Pending == [ret |-> "pending", status |-> 0, body |-> NoBody, msg |-> ""]

\* RetryOutcome with the loop running one pass too many
RetryOutcomeOffByOne(att, o) ==
    IF o.kind = "status"
    THEN IF o.status = 403
         THEN IF att < max_retries THEN "continue" ELSE "None"
         ELSE "response"
    ELSE IF o.kind \in RequestsExceptions
         THEN IF att = max_retries THEN "None" ELSE "continue"
         ELSE "raised"

\* _make_request_with_retry, one pass of the loop body on attempt att (0-based) with
\* transport outcome o: go round again, return None, return the response, or let the
\* exception out
RetryOutcome(att, o) ==
    IF o.kind = "status"
    THEN IF o.status = 403
         THEN IF att + 1 < max_retries THEN "continue" ELSE "None"
         ELSE "response"
    ELSE IF o.kind \in RequestsExceptions
         THEN IF att = max_retries - 1 THEN "None" ELSE "continue"
         ELSE "raised"

\* how one pass of the loop ended, as the timeline records it
OutcomeKind(o) == IF o.kind = "status" THEN ToString(o.status) ELSE o.kind

\* time.sleep(random.uniform(2, 4)) at the top of every pass but the first
JitterSleeps(att) ==
    IF att > 0 THEN <<[ev |-> "sleep", k |-> att, end |-> "jitter", lo |-> 2, hi |-> 4]>>
    ELSE <<>>

\* BackoffSleeps sleeping after every failed pass, a 403 included
BackoffSleepsAfterAny(att, o) ==
    IF att # max_retries - 1 /\ (o.kind \in RequestsExceptions \/ OutcomeKind(o) = "403")
    THEN <<[ev |-> "sleep", k |-> att, end |-> "backoff", lo |-> 2 ^ att, hi |-> 2 ^ att]>>
    ELSE <<>>

\* time.sleep(2 ** attempt) in the three except clauses, skipped on the last pass
BackoffSleeps(att, o) ==
    IF o.kind \in RequestsExceptions /\ att # max_retries - 1
    THEN <<[ev |-> "sleep", k |-> att, end |-> "backoff", lo |-> 2 ^ att, hi |-> 2 ^ att]>>
    ELSE <<>>

\* the headers the 403 branch leaves in the session
RotateHeaders(h) == [h EXCEPT !.Accept = "*/*", !.Referer = "https://www.google.com/"]

\* _process_url, the try block
ProcessUrlTry(url, ret) ==
    IF ret.ret = "raised" THEN Raised(ret.msg)
    ELSE IF ret.ret = "None"
         THEN ErrorRecord(<<"Failed to fetch URL after multiple attempts">>)
    ELSE IF ret.status # 200
         THEN ErrorRecord(<<"Failed to fetch URL. Status code: ", ToString(ret.status)>>)
    ELSE IF ~ret.body.parseOk THEN Raised(ExtractionError)
    ELSE UrlRecord(url, ret.body)

\* _process_url with its except clause
_process_url(url, ret) ==
    LET r == ProcessUrlTry(url, ret)
    IN  IF r.status = "raised" THEN ErrorRecord(<<"Error processing URL: ", r.error[1]>>)
        ELSE r

\* process without its except clause
ProcessNoCatch(r) == r

\* process, the except clause around both branches
ProcessCatch(r) ==
    IF r.status = "raised" THEN ErrorRecord(<<"Error processing input: ", r.error[1]>>)
    ELSE r

\* CompanyOutcome giving up after the first URL that did not answer 200
CompanyOutcomeGiveUp(us, idx, ret) ==
    IF ret.ret = "raised" THEN Raised(ret.msg)
    ELSE IF ret.ret = "response" /\ ret.status = 200
         THEN _extract_information(ret.body, us[idx])
    ELSE ErrorRecord(<<"Failed to fetch any URLs">>)

\* _process_company_name after one _make_request_with_retry call on urls[idx]: the
\* record to return, or NoResult when the loop goes on to the next URL
CompanyOutcome(us, idx, ret) ==
    IF ret.ret = "raised" THEN Raised(ret.msg)
    ELSE IF ret.ret = "response" /\ ret.status = 200
         THEN _extract_information(ret.body, us[idx])
    ELSE IF idx < Len(us) THEN NoResult
    ELSE ErrorRecord(<<"Failed to fetch any URLs">>)

\* _find_company_urls: a result is appended unless it is in the list already
RECURSIVE AppendNew(_, _)
AppendNew(us, found) ==
    IF found = <<>> THEN us
    ELSE AppendNew(IF Head(found) \in Range(us) THEN us ELSE Append(us, Head(found)),
                   Tail(found))

(***************************************************************************)
(* agents/crawler.py: CrawlerAgent.process step by step                    *)
(***************************************************************************)
\* the URL _make_request_with_retry is working on
CurUrl ==
    IF path = "url" THEN [host |-> input.netloc, path |-> input.rest]
    ELSE IF urlIdx \in 1..Len(urls) THEN urls[urlIdx]
    ELSE NoUrl

InitCrawler ==
    /\ pc = "idle"
    /\ input = NoInput
    /\ path = "none"
    /\ headers = DefaultHeaders
    /\ attempt = 0
    /\ n403 = 0
    /\ sent = <<>>
    /\ fetchRet = Pending
    /\ timeline = <<>>
    /\ company = <<>>
    /\ urls = <<>>
    /\ queryIdx = 0
    /\ urlIdx = 0
    /\ requests = 0
    /\ searches = 0
    /\ firstUrl = NoUrl
    /\ result = NoResult

\* process is called: the URL check picks the branch
Process(i) ==
    /\ pc \in {"idle", "done"}
    /\ input' = i
    /\ result' = NoResult
    /\ requests' = 0
    /\ searches' = 0
    /\ firstUrl' = NoUrl
    /\ attempt' = 0
    /\ n403' = 0
    /\ sent' = <<>>
    /\ fetchRet' = Pending
    /\ timeline' = <<>>
    /\ urls' = <<>>
    /\ queryIdx' = 0
    /\ urlIdx' = 0
    /\ IF _is_url(i)
       THEN /\ path' = "url"
            /\ company' = <<>>
            /\ pc' = "fetch"
       ELSE /\ path' = "company"
            /\ company' = _normalize_company_name(i.text)
            /\ pc' = "search"
    /\ UNCHANGED <<headers, pureVars>>

\* _find_company_urls: one query of SEARCH_QUERIES; after the last one
\* _process_company_name gives up or starts on the first URL
SearchQuery(r) ==
    /\ pc = "search"
    /\ queryIdx < Len(SEARCH_QUERIES)
    /\ searches' = searches + 1
    /\ queryIdx' = queryIdx + 1
    /\ urls' = IF r = SearchError THEN urls ELSE AppendNew(urls, r)
    /\ IF queryIdx' < Len(SEARCH_QUERIES)
       THEN /\ pc' = "search"
            /\ UNCHANGED <<urlIdx, result>>
       ELSE IF urls' = <<>>
            THEN /\ pc' = "done"
                 /\ result' = ProcessCatch(ErrorRecord(<<"No URLs found">>))
                 /\ UNCHANGED urlIdx
            ELSE /\ pc' = "fetch"
                 /\ urlIdx' = 1
                 /\ UNCHANGED result
    /\ UNCHANGED <<input, path, headers, attempt, n403, sent, fetchRet, timeline,
                   company, requests, firstUrl, pureVars>>

\* _make_request_with_retry: one pass of the loop with User-Agent ua and outcome o
Attempt(o, ua) ==
    LET hdr == [headers EXCEPT !.UserAgent = ua]
        out == RetryOutcome(attempt, o)
    IN  /\ pc = "fetch"
        /\ sent' = Append(sent, hdr)
        /\ requests' = requests + 1
        /\ firstUrl' = IF requests = 0 THEN CurUrl ELSE firstUrl
        /\ headers' = IF o.kind = "status" /\ o.status = 403 THEN RotateHeaders(hdr) ELSE hdr
        /\ n403' = IF o.kind = "status" /\ o.status = 403 THEN n403 + 1 ELSE n403
        /\ attempt' = attempt + 1
        /\ timeline' = timeline \o JitterSleeps(attempt)
                                 \o <<[ev |-> "get", k |-> attempt, end |-> OutcomeKind(o)]>>
                                 \o BackoffSleeps(attempt, o)
        /\ IF out = "continue"
           THEN UNCHANGED <<pc, fetchRet>>
           ELSE /\ pc' = "fetched"
                /\ fetchRet' = IF out = "None"
                               THEN [ret |-> "None", status |-> 0, body |-> NoBody, msg |-> ""]
                               ELSE [ret |-> out, status |-> o.status, body |-> o.body,
                                     msg |-> o.msg]
        /\ UNCHANGED <<input, path, company, urls, queryIdx, urlIdx, searches, result,
                       pureVars>>

\* the transport answers 403
AttemptForbidden ==
    \E o \in Outcomes, ua \in UserAgents :
        o.kind = "status" /\ o.status = 403 /\ Attempt(o, ua)

\* the transport answers with any other status
AttemptResponse ==
    \E o \in Outcomes, ua \in UserAgents :
        o.kind = "status" /\ o.status # 403 /\ Attempt(o, ua)

\* the transport raises Timeout, ConnectionError or another RequestException
AttemptRequestsError ==
    \E o \in Outcomes, ua \in UserAgents :
        o.kind \in RequestsExceptions /\ Attempt(o, ua)

\* the transport raises an exception that is no RequestException
AttemptOtherError ==
    \E o \in Outcomes, ua \in UserAgents :
        o.kind = "Exception" /\ Attempt(o, ua)

\* _process_url after _make_request_with_retry, up to the return of process
UrlReturn ==
    /\ pc = "fetched"
    /\ path = "url"
    /\ result' = ProcessCatch(_process_url(CurUrl, fetchRet))
    /\ pc' = "done"
    /\ UNCHANGED <<input, path, headers, attempt, n403, sent, fetchRet, timeline, company,
                   urls, queryIdx, urlIdx, requests, searches, firstUrl, pureVars>>

\* _process_company_name after _make_request_with_retry: return, or try the next URL
CompanyReturn ==
    LET r == CompanyOutcome(urls, urlIdx, fetchRet)
    IN  /\ pc = "fetched"
        /\ path = "company"
        /\ IF r = NoResult
           THEN /\ pc' = "fetch"
                /\ urlIdx' = urlIdx + 1
                /\ attempt' = 0
                /\ n403' = 0
                /\ sent' = <<>>
                /\ fetchRet' = Pending
                /\ timeline' = <<>>
                /\ UNCHANGED result
           ELSE /\ pc' = "done"
                /\ result' = ProcessCatch(r)
                /\ UNCHANGED <<urlIdx, attempt, n403, sent, fetchRet, timeline>>
        /\ UNCHANGED <<input, path, headers, company, urls, queryIdx, requests, searches,
                       firstUrl, pureVars>>

NameIdle == rawName = <<>> /\ cleanOnce = <<>> /\ cleanTwice = <<>>
ListIdle == rawList = <<>> /\ cleanedList = <<>>

\* AnalystAgent.process has been given nothing
NoData == [partnerships |-> <<>>, licenses |-> <<>>, acquisitions |-> <<>>]
DataIdle == data = NoData

\* _find_best_url has not been called
UrlIdle == urlList = <<>> /\ companyName = <<>> /\ bestUrl = NoUrl

\* no text function of the crawler has been called
TextIdle == text = <<>> /\ arg = 0 /\ textOut = <<>>

\* main.process_opportunity has not been called
MainIdle ==
    /\ stage = "idle"
    /\ extracted_info = NoResult
    /\ analysis = NoResult
    /\ report = NoResult
    /\ saved = FALSE

\* the global analysis_state the dcc.Store starts with; report_html is 0 for None
\* or the number of the run that made the report, start_time 0 for None or the
\* number of the click that started the run, crawler_data and analyst_data say whether the key is present
analysis_state ==
    [is_running |-> FALSE, current_agent |-> 0, error_message |-> "None",
     report_html |-> 0, start_time |-> 0, crawler_data |-> FALSE,
     analyst_data |-> FALSE]

\* classes of the three agent steps and the report shown, as the layout has them
AllPending == <<"pending", "pending", "pending">>
AllCompleted == <<"completed", "completed", "completed">>
LayoutDisplay == [classes |-> AllPending, report |-> 0]

\* no agent has run for any dashboard run
NoExecutions == [r \in 1..MaxClicks |-> [k \in 1..3 |-> FALSE]]

\* the dashboard as app.layout builds it
DashIdle ==
    /\ analysis_store = analysis_state
    /\ n_clicks = 0
    /\ interval_disabled = TRUE
    /\ in_flight = <<>>
    /\ display = LayoutDisplay
    /\ executions = NoExecutions

Init ==
    /\ InitCrawler /\ NameIdle /\ ListIdle /\ DataIdle /\ TextIdle /\ UrlIdle
    /\ MainIdle /\ DashIdle /\ phase = "crawler"

Next ==
    \/ \E i \in Inputs : Process(i)
    \/ \E r \in SearchResults : SearchQuery(r)
    \/ AttemptForbidden
    \/ AttemptResponse
    \/ AttemptRequestsError
    \/ AttemptOtherError
    \/ UrlReturn
    \/ CompanyReturn

Spec == Init /\ [][Next]_vars

(***************************************************************************)
(* agents/analyst.py: _clean_company_name, on strings of single characters *)
(***************************************************************************)
\* the value None
NoneStr == <<"None">>

CleanSuffixes == << <<"I", "n", "c">>, <<"L", "L", "C">>, <<"L", "t", "d">>, <<"C", "o", "r", "p">>,
                    <<"C", "o", "r", "p", "o", "r", "a", "t", "i", "o", "n">>,
                    <<"P", "L", "C">>, <<"C", "o">>, <<"C", "o", "m", "p", "a", "n", "y">>,
                    <<"L", "i", "m", "i", "t", "e", "d">> >>

CleanPrefixes == << <<"T", "h", "e">>, <<"A">>, <<"A", "n">> >>

\* re.sub(r'[^\w\s&]', ' ', name)
SpecialToSpace(s) ==
    [i \in 1..Len(s) |-> IF IsWord(s[i]) \/ IsSpace(s[i]) \/ s[i] = "&" THEN s[i] ELSE " "]

\* \bw\b matches s at i, ignoring case
WordMatchAt(s, i, w) ==
    /\ StartsAt(Lower(s), i, Lower(w))
    /\ i = 1 \/ ~IsWord(s[i - 1])
    /\ i + Len(w) - 1 = Len(s) \/ ~IsWord(s[i + Len(w)])

\* re.sub(rf'\b{w}\b', '', s, flags=re.IGNORECASE), scanning s from position i
RECURSIVE RemoveWordFrom(_, _, _)
RemoveWordFrom(s, w, i) ==
    IF i > Len(s) THEN <<>>
    ELSE IF WordMatchAt(s, i, w) THEN RemoveWordFrom(s, w, i + Len(w))
    ELSE <<s[i]>> \o RemoveWordFrom(s, w, i + 1)

RECURSIVE RemoveCleanSuffixes(_, _)
RemoveCleanSuffixes(s, k) ==
    IF k > Len(CleanSuffixes) THEN s
    ELSE RemoveCleanSuffixes(RemoveWordFrom(s, CleanSuffixes[k], 1), k + 1)

\* re.sub(rf'^{w}\s+', '', s, flags=re.IGNORECASE)
RemovePrefix(s, w) ==
    IF StartsAt(Lower(s), 1, Lower(w)) /\ Len(s) > Len(w) /\ IsSpace(s[Len(w) + 1])
    THEN LStrip(SubSeq(s, Len(w) + 1, Len(s)))
    ELSE s

RECURSIVE RemoveCleanPrefixes(_, _)
RemoveCleanPrefixes(s, k) ==
    IF k > Len(CleanPrefixes) THEN s
    ELSE RemoveCleanPrefixes(RemovePrefix(s, CleanPrefixes[k]), k + 1)

\* the four name.replace lines
FixVariationsSkipped(s) == s

\* name.replace(...) for the listed concatenations
FixVariations(s) ==
    LET a == Replace(s, <<"J", "o", "h", "n", "s", "o", "n", "J", "o", "h", "n", "s", "o", "n">>,
                     <<"J", "o", "h", "n", "s", "o", "n", " ", "&", " ", "J", "o", "h", "n", "s", "o", "n">>)
        b == Replace(a, <<"J", "o", "h", "n", "s", "o", "n", " ", "&", " ", "J", "o", "h", "n", "s", "o", "n">>,
                     <<"J", "o", "h", "n", "s", "o", "n", " ", "&", " ", "J", "o", "h", "n", "s", "o", "n">>)
        c == Replace(b, <<"P", "f", "i", "z", "e", "r", "B", "i", "o", "N", "T", "e", "c", "h">>,
                     <<"P", "f", "i", "z", "e", "r">>)
    IN  Replace(c, <<"M", "e", "r", "c", "k", "E", "a", "r", "l", "y">>, <<"M", "e", "r", "c", "k">>)

\* _clean_company_name
_clean_company_name(name) ==
    IF name = NoneStr \/ name = <<>> THEN NoneStr
    ELSE LET stripped == Strip(name)
             spaced == Strip(CollapseRuns(SpecialToSpace(stripped)))
             unsuffixed == RemoveCleanSuffixes(spaced, 1)
             unprefixed == RemoveCleanPrefixes(unsuffixed, 1)
             final == Strip(FixVariations(unprefixed))
         IN  IF final = <<>> THEN NoneStr ELSE final

\* names given to _clean_company_name: every string of at most MaxNameLen characters
\* over NameAlphabet, and the names of tests/test_analyst.py
NameAlphabet == {"A", "c", "o", " ", ".", "&"}
TestNames == { <<"M", "e", "r", "c", "k", "E", "a", "r", "l", "y", " ", "I", "n", "c", ".">>,
               <<"P", "f", "i", "z", "e", "r", "B", "i", "o", "N", "T", "e", "c", "h">>,
               <<"J", "o", "h", "n", "s", "o", "n", "J", "o", "h", "n", "s", "o", "n">>,
               <<"T", "h", "e", " ", "N", "o", "v", "a", "r", "t", "i", "s", " ", "C", "o", "r", "p", "o", "r", "a", "t", "i", "o", "n">>,
               <<"R", "o", "c", "h", "e", " ", "L", "t", "d", ".">>,
               <<"A", "s", "t", "r", "a", "Z", "e", "n", "e", "c", "a", " ", "P", "L", "C">>,
               <<"B", "r", "i", "s", "t", "o", "l", " ", "M", "y", "e", "r", "s", " ", "S", "q", "u", "i", "b", "b", " ", "C", "o", ".">> }
NameInputs == UNION { [1..n -> NameAlphabet] : n \in 0..MaxNameLen } \cup TestNames \cup {NoneStr}

InitName ==
    /\ InitCrawler
    /\ MainIdle
    /\ DashIdle
    /\ ListIdle
    /\ DataIdle
    /\ TextIdle
    /\ UrlIdle
    /\ rawName \in NameInputs
    /\ cleanOnce = <<>>
    /\ cleanTwice = <<>>
    /\ phase = "name"

\* _clean_company_name is applied to rawName, and again to what it returned
CleanName ==
    /\ phase = "name"
    /\ cleanOnce' = _clean_company_name(rawName)
    /\ cleanTwice' = _clean_company_name(cleanOnce')
    /\ phase' = "cleaned"
    /\ UNCHANGED <<rawName, listVars, data, textVars, urlVars, crawlerVars, mainVars, dashVars>>

NextName == CleanName

SpecName == InitName /\ [][NextName]_vars

(***************************************************************************)
(* agents/analyst.py: _clean_competitor_list                               *)
(***************************************************************************)
\* keep-the-last variant of the loop: a later entry replaces the kept one
RECURSIVE CleanListKeepLast(_, _, _, _)
CleanListKeepLast(competitors, k, seen_names, cleaned) ==
    IF k > Len(competitors) THEN cleaned
    ELSE LET comp == competitors[k]
             name == _clean_company_name(comp.name)
             entry == [name |-> name, deal_type |-> comp.deal_type,
                       context |-> comp.context, confidence |-> comp.confidence]
         IN  IF comp.name = NoneStr \/ comp.name = <<>> \/ name = NoneStr
             THEN CleanListKeepLast(competitors, k + 1, seen_names, cleaned)
             ELSE IF name \in seen_names
             THEN CleanListKeepLast(competitors, k + 1, seen_names,
                      [i \in 1..Len(cleaned) |->
                          IF cleaned[i].name = name THEN entry ELSE cleaned[i]])
             ELSE CleanListKeepLast(competitors, k + 1, seen_names \cup {name},
                                    Append(cleaned, entry))

\* variant of the loop without the seen_names test
RECURSIVE CleanListNoDedup(_, _, _, _)
CleanListNoDedup(competitors, k, seen_names, cleaned) ==
    IF k > Len(competitors) THEN cleaned
    ELSE LET comp == competitors[k]
             name == _clean_company_name(comp.name)
         IN  IF comp.name = NoneStr \/ comp.name = <<>> \/ name = NoneStr
             THEN CleanListNoDedup(competitors, k + 1, seen_names, cleaned)
             ELSE CleanListNoDedup(competitors, k + 1, seen_names \cup {name},
                      Append(cleaned, [name |-> name, deal_type |-> comp.deal_type,
                                       context |-> comp.context,
                                       confidence |-> comp.confidence]))

\* variant of the loop that lets entries without a usable name through
RECURSIVE CleanListKeepNameless(_, _, _, _)
CleanListKeepNameless(competitors, k, seen_names, cleaned) ==
    IF k > Len(competitors) THEN cleaned
    ELSE LET comp == competitors[k]
             name == IF comp.name \in {NoneStr, <<>>} THEN NoneStr
                     ELSE _clean_company_name(comp.name)
         IN  IF name \in seen_names
             THEN CleanListKeepNameless(competitors, k + 1, seen_names, cleaned)
             ELSE CleanListKeepNameless(competitors, k + 1, seen_names \cup {name},
                      Append(cleaned, [name |-> name, deal_type |-> comp.deal_type,
                                       context |-> comp.context,
                                       confidence |-> comp.confidence]))

\* the loop of _clean_competitor_list from entry k on, with seen_names and
\* cleaned_competitors as they stand
RECURSIVE CleanListFrom(_, _, _, _)
CleanListFrom(competitors, k, seen_names, cleaned) ==
    IF k > Len(competitors) THEN cleaned
    ELSE LET comp == competitors[k]
             name == _clean_company_name(comp.name)
         IN  IF comp.name = NoneStr \/ comp.name = <<>>
             THEN CleanListFrom(competitors, k + 1, seen_names, cleaned)
             ELSE IF name = NoneStr \/ name \in seen_names
             THEN CleanListFrom(competitors, k + 1, seen_names, cleaned)
             ELSE CleanListFrom(competitors, k + 1, seen_names \cup {name},
                      Append(cleaned, [name |-> name, deal_type |-> comp.deal_type,
                                       context |-> comp.context,
                                       confidence |-> comp.confidence]))

\* _clean_competitor_list
_clean_competitor_list(competitors) == CleanListFrom(competitors, 1, {}, <<>>)

\* raw competitors: a raw name and the fields copied along; confidence in tenths
RawNames == { <<"A", "c", "m", "e", " ", "I", "n", "c", ".">>,
              <<"T", "h", "e", " ", "A", "c", "m", "e">>,
              <<"R", "o", "c", "h", "e", " ", "L", "t", "d">>,
              <<"C", "o", ".">>,
              <<>>,
              NoneStr }
Payloads == { [deal_type |-> "pipeline", context |-> "ctx1", confidence |-> 8],
              [deal_type |-> "partnerships", context |-> "ctx2", confidence |-> 7],
              [deal_type |-> "licenses", context |-> "ctx1", confidence |-> 9] }
RawCompetitors ==
    { c \in { [name |-> n, deal_type |-> q.deal_type, context |-> q.context,
               confidence |-> q.confidence] : n \in RawNames, q \in Payloads } :
        c.name = <<"A", "c", "m", "e", " ", "I", "n", "c", ".">> \/ c.deal_type = "pipeline" }

InitList ==
    /\ InitCrawler
    /\ MainIdle
    /\ DashIdle
    /\ NameIdle
    /\ DataIdle
    /\ TextIdle
    /\ UrlIdle
    /\ rawList \in UNION { [1..n -> RawCompetitors] : n \in 0..MaxList }
    /\ cleanedList = <<>>
    /\ phase = "list"

\* AnalystAgent.process: competitors = self._clean_competitor_list(raw_competitors)
CleanCompetitors ==
    /\ phase = "list"
    /\ cleanedList' = _clean_competitor_list(rawList)
    /\ phase' = "cleaned"
    /\ UNCHANGED <<rawList, nameVars, data, textVars, urlVars, crawlerVars, mainVars, dashVars>>

NextList == CleanCompetitors

SpecList == InitList /\ [][NextList]_vars

(***************************************************************************)
(* agents/analyst.py: AnalystAgent.process on deal_info with 'company' keys *)
(***************************************************************************)
\* the deals of data in the order _extract_competitors visits them
DealEntries(d) ==
    [i \in 1..Len(d.partnerships) |->
        [deal |-> d.partnerships[i], deal_type |-> "partnerships"]]
    \o [i \in 1..Len(d.licenses) |-> [deal |-> d.licenses[i], deal_type |-> "licenses"]]
    \o [i \in 1..Len(d.acquisitions) |->
        [deal |-> d.acquisitions[i], deal_type |-> "acquisitions"]]

\* _extract_competitors, the deal_info loop from entry k on for deals with a
\* 'company' key; confidence in tenths
RECURSIVE ExtractDealsFrom(_, _, _, _)
ExtractDealsFrom(entries, k, seen_names, competitors) ==
    IF k > Len(entries) THEN competitors
    ELSE LET e == entries[k]
             name == _clean_company_name(e.deal.company)
         IN  IF name = NoneStr \/ name \in seen_names
             THEN ExtractDealsFrom(entries, k + 1, seen_names, competitors)
             ELSE ExtractDealsFrom(entries, k + 1, seen_names \cup {name},
                      Append(competitors, [name |-> name, deal_type |-> e.deal_type,
                                           context |-> e.deal.context, confidence |-> 8]))

\* _extract_competitors on data without pipeline_info
_extract_competitors(d) == ExtractDealsFrom(DealEntries(d), 1, {}, <<>>)

\* company names as they are written: a leading article, a name or a listed
\* concatenation of it, a legal-entity suffix with its punctuation; canon is the name
\* tests/test_analyst.py expects in the output
Articles == { <<>>, <<"T", "h", "e", " ">>, <<"A", " ">>, <<"A", "n", " ">> }
BaseNames == { [raw |-> <<"M", "e", "r", "c", "k", "E", "a", "r", "l", "y">>, canon |-> <<"M", "e", "r", "c", "k">>],
               [raw |-> <<"N", "o", "v", "a", "r", "t", "i", "s">>, canon |-> <<"N", "o", "v", "a", "r", "t", "i", "s">>],
               [raw |-> <<"R", "o", "c", "h", "e">>, canon |-> <<"R", "o", "c", "h", "e">>],
               [raw |-> <<"P", "f", "i", "z", "e", "r", "B", "i", "o", "N", "T", "e", "c", "h">>, canon |-> <<"P", "f", "i", "z", "e", "r">>] }
LegalSuffixes == { <<>>, <<" ", "I", "n", "c">>,
                   <<" ", "L", "L", "C">>,
                   <<" ", "L", "t", "d">>,
                   <<" ", "C", "o", "r", "p">>,
                   <<" ", "C", "o", "r", "p", "o", "r", "a", "t", "i", "o", "n">>,
                   <<" ", "P", "L", "C">>,
                   <<" ", "C", "o">>,
                   <<" ", "C", "o", "m", "p", "a", "n", "y">>,
                   <<" ", "L", "i", "m", "i", "t", "e", "d">>,
                   <<" ", "I", "n", "c", ".">>,
                   <<",", " ", "I", "n", "c", ".">>,
                   <<" ", "C", "o", ".", ",", " ", "L", "t", "d", ".">> }
WrittenCompanies ==
    { [company |-> a \o b.raw \o x, context |-> "Technology license", canon |-> b.canon] :
          a \in Articles, b \in BaseNames, x \in LegalSuffixes }

\* the companies of test_competitor_name_cleaning that C14 names, and the duplicate
TestCompanies ==
    { [company |-> <<"M", "e", "r", "c", "k", "E", "a", "r", "l", "y", " ", "I", "n", "c", ".">>, context |-> "Strategic partnership", canon |-> <<"M", "e", "r", "c", "k">>],
      [company |-> <<"T", "h", "e", " ", "N", "o", "v", "a", "r", "t", "i", "s", " ", "C", "o", "r", "p", "o", "r", "a", "t", "i", "o", "n">>, context |-> "Research collaboration", canon |-> <<"N", "o", "v", "a", "r", "t", "i", "s">>],
      [company |-> <<"R", "o", "c", "h", "e", " ", "L", "t", "d", ".">>, context |-> "Clinical trial", canon |-> <<"R", "o", "c", "h", "e">>],
      [company |-> <<"M", "e", "r", "c", "k", "E", "a", "r", "l", "y">>, context |-> "Technology license", canon |-> <<"M", "e", "r", "c", "k">>] }

\* deal_info: test companies around one written company, MaxDeals deals at most
DealInfos ==
    { [partnerships |-> pre, licenses |-> <<w>>, acquisitions |-> post] :
          w \in WrittenCompanies,
          pre \in UNION { [1..n -> TestCompanies] : n \in 0..(MaxDeals - 1) },
          post \in UNION { [1..n -> TestCompanies] : n \in 0..(MaxDeals - 1) } }

InitDeals ==
    /\ InitCrawler
    /\ MainIdle
    /\ DashIdle
    /\ NameIdle
    /\ ListIdle
    /\ TextIdle
    /\ UrlIdle
    /\ data \in {d \in DealInfos : Len(d.partnerships) + Len(d.acquisitions) < MaxDeals}
    /\ phase = "data"

\* AnalystAgent.process: raw_competitors = self._extract_competitors(input_data)
ExtractCompetitors ==
    /\ phase = "data"
    /\ rawList' = _extract_competitors(data)
    /\ phase' = "list"
    /\ UNCHANGED <<cleanedList, data, nameVars, textVars, urlVars, crawlerVars, mainVars, dashVars>>

NextDeals == ExtractCompetitors \/ CleanCompetitors

SpecDeals == InitDeals /\ [][NextDeals]_vars

(***************************************************************************)
(* Python's re on strings of single characters, for the patterns the        *)
(* crawler uses: a pattern is a sequence of alternatives, an alternative a  *)
(* sequence of items: a literal, one character of a class, an optional      *)
(* literal, a greedy repetition of a class, or the lookahead (?=\n\n|\Z).   *)
(***************************************************************************)
UpperLetters == {"A", "B", "C", "D", "E", "F", "G", "H", "I", "J", "K", "L", "M", "N", "O", "P", "Q", "R", "S", "T", "U", "V", "W", "X", "Y", "Z"}
LowerLetters == {"a", "b", "c", "d", "e", "f", "g", "h", "i", "j", "k", "l", "m", "n", "o", "p", "q", "r", "s", "t", "u", "v", "w", "x", "y", "z"}
Digits == {"0", "1", "2", "3", "4", "5", "6", "7", "8", "9"}
Letters == UpperLetters \cup LowerLetters
\* the characters of the texts, and [^.,] among them
TextChars ==
    Letters \cup Digits \cup Whitespace
        \cup {".", ",", "&", "-", "/", ":", ";", "<", ">", "Acirc", "circ", "copy"}
NotDotComma == TextChars \ {".", ","}

Lit(w) == [i \in 1..Len(w) |-> [t |-> "lit", c |-> w[i], s |-> {}, min |-> 1]]
Cls(set) == <<[t |-> "cls", c |-> "", s |-> set, min |-> 1]>>
Opt(ch) == <<[t |-> "opt", c |-> ch, s |-> {}, min |-> 0]>>
Rep(set, n) == <<[t |-> "rep", c |-> "", s |-> set, min |-> n]>>
AheadBlankOrEnd == <<[t |-> "eop", c |-> "", s |-> {}, min |-> 0]>>

\* one character against a literal or a class, under re.IGNORECASE when ic
SameChar(ch, c, ic) == IF ic THEN LowerSym(ch) = LowerSym(c) ELSE ch = c
InClass(ch, set, ic) == ch \in set \/ (ic /\ \E x \in set : LowerSym(x) = LowerSym(ch))

\* the position behind the longest run of class characters from position i
RECURSIVE RunEnd(_, _, _, _)
RunEnd(str, i, set, ic) ==
    IF i <= Len(str) /\ InClass(str[i], set, ic) THEN RunEnd(str, i + 1, set, ic) ELSE i

\* the position behind a match of items[k..] that begins at position i, 0 for none; an
\* optional literal and a repetition take what they can and give it back, one
\* character at a time, when the rest of the items does not match behind them
RECURSIVE MatchItems(_, _, _, _, _), MatchRep(_, _, _, _, _, _)
MatchItems(str, i, items, k, ic) ==
    IF k > Len(items) THEN i
    ELSE LET it == items[k]
         IN  CASE it.t = "lit" ->
                    IF i <= Len(str) /\ SameChar(str[i], it.c, ic)
                    THEN MatchItems(str, i + 1, items, k + 1, ic) ELSE 0
               [] it.t = "cls" ->
                    IF i <= Len(str) /\ InClass(str[i], it.s, ic)
                    THEN MatchItems(str, i + 1, items, k + 1, ic) ELSE 0
               [] it.t = "opt" ->
                    LET taken == IF i <= Len(str) /\ SameChar(str[i], it.c, ic)
                                 THEN MatchItems(str, i + 1, items, k + 1, ic) ELSE 0
                    IN  IF taken > 0 THEN taken ELSE MatchItems(str, i, items, k + 1, ic)
               [] it.t = "rep" ->
                    MatchRep(str, i, RunEnd(str, i, it.s, ic), items, k, ic)
               [] it.t = "eop" ->
                    IF i > Len(str) \/ StartsAt(str, i, <<"\n", "\n">>)
                    THEN MatchItems(str, i, items, k + 1, ic) ELSE 0
MatchRep(str, i, e, items, k, ic) ==
    IF e - i < items[k].min THEN 0
    ELSE LET r == MatchItems(str, e, items, k + 1, ic)
         IN  IF r > 0 THEN r ELSE MatchRep(str, i, e - 1, items, k, ic)

\* the position behind the match at position i of the first alternative that matches
RECURSIVE MatchAlt(_, _, _, _, _)
MatchAlt(str, i, pattern, a, ic) ==
    IF a > Len(pattern) THEN 0
    ELSE LET e == MatchItems(str, i, pattern[a], 1, ic)
         IN  IF e > 0 THEN e ELSE MatchAlt(str, i, pattern, a + 1, ic)

\* re.search from position i on: [start, end) of the leftmost match, <<0, 0>> for none
RECURSIVE SearchFrom(_, _, _, _)
SearchFrom(str, i, pattern, ic) ==
    IF i > Len(str) THEN <<0, 0>>
    ELSE LET e == MatchAlt(str, i, pattern, 1, ic)
         IN  IF e > 0 THEN <<i, e>> ELSE SearchFrom(str, i + 1, pattern, ic)

\* re.finditer: the matches from left to right, none overlapping another
RECURSIVE FindIterFrom(_, _, _, _)
FindIterFrom(str, i, pattern, ic) ==
    LET m == SearchFrom(str, i, pattern, ic)
    IN  IF m[1] = 0 THEN <<>>
        ELSE <<m>> \o FindIterFrom(str, IF m[2] > m[1] THEN m[2] ELSE m[1] + 1, pattern, ic)

\* re.finditer without re.IGNORECASE
FindIterCaseSensitive(str, pattern, ic) == FindIterFrom(str, 1, pattern, FALSE)

FindIter(str, pattern, ic) == FindIterFrom(str, 1, pattern, ic)

(***************************************************************************)
(* agents/crawler.py: _truncate_text, on strings of single characters      *)
(***************************************************************************)
\* str.split(): the maximal runs of non-whitespace characters
RECURSIVE SplitFrom(_, _, _)
SplitFrom(s, word, words) ==
    IF s = <<>> THEN IF word = <<>> THEN words ELSE Append(words, word)
    ELSE IF IsSpace(Head(s))
         THEN SplitFrom(Tail(s), <<>>, IF word = <<>> THEN words ELSE Append(words, word))
         ELSE SplitFrom(Tail(s), Append(word, Head(s)), words)
Split(s) == SplitFrom(s, <<>>, <<>>)

\* sep.join(words)
RECURSIVE Join(_, _)
Join(words, sep) ==
    IF words = <<>> THEN <<>>
    ELSE IF Len(words) = 1 THEN words[1]
    ELSE words[1] \o sep \o Join(Tail(words), sep)

Ellipsis == <<".", ".", ".">>

\* _truncate_text cutting after max_words characters
TruncateChars(t, max_words) ==
    IF Len(t) > max_words THEN SubSeq(t, 1, max_words) \o Ellipsis ELSE t

\* _truncate_text
_truncate_text(t, max_words) ==
    LET words == Split(t)
    IN  IF Len(words) > max_words
        THEN Join(SubSeq(words, 1, max_words), <<" ">>) \o Ellipsis
        ELSE t

\* texts of at most MaxTextLen characters: a letter, a dot, a space, a newline
TextAlphabet == {"a", ".", " ", "\n"}
Texts == UNION { [1..n -> TextAlphabet] : n \in 0..MaxTextLen }

InitTruncate ==
    /\ InitCrawler
    /\ MainIdle
    /\ DashIdle
    /\ NameIdle
    /\ ListIdle
    /\ DataIdle
    /\ UrlIdle
    /\ text \in Texts
    /\ arg \in 1..MaxWords
    /\ textOut = <<>>
    /\ phase = "text"

\* preprocess_press_release: text = self._truncate_text(text, max_words=...)
Truncate ==
    /\ phase = "text"
    /\ textOut' = _truncate_text(text, arg)
    /\ phase' = "truncated"
    /\ UNCHANGED <<text, arg, nameVars, listVars, data, urlVars, crawlerVars, mainVars, dashVars>>

NextTruncate == Truncate

SpecTruncate == InitTruncate /\ [][NextTruncate]_vars

(***************************************************************************)
(* agents/crawler.py: _find_best_url on lists of search results            *)
(***************************************************************************)
UStat == [host |-> <<"www.", "stat", "news", ".com">>, path |-> <<"/">>]
UPipeline == [host |-> <<"www.", "acme", ".com">>,
              path |-> <<"/", "pipeline", "/", "clinical", "-", "trial">>]
UOther == [host |-> <<"blog", ".org">>, path |-> <<"/", "other">>]
CandidateUrls == {UCompany, UNews, UBlog, UStat, UPipeline, UOther}
CompanyNames == { <<"Acme">>, <<>> }

InitBestUrl ==
    /\ InitCrawler
    /\ MainIdle
    /\ DashIdle
    /\ NameIdle
    /\ ListIdle
    /\ DataIdle
    /\ TextIdle
    /\ urlList \in UNION { [1..n -> CandidateUrls] : n \in 0..MaxUrls }
    /\ companyName \in CompanyNames
    /\ bestUrl = NoUrl
    /\ phase = "urls"

\* _find_best_url(urls, company_name) is called
FindBestUrl ==
    /\ phase = "urls"
    /\ bestUrl' = _find_best_url(urlList, companyName)
    /\ phase' = "ranked"
    /\ UNCHANGED <<urlList, companyName, nameVars, listVars, data, textVars, crawlerVars, mainVars, dashVars>>

NextBestUrl == FindBestUrl

SpecBestUrl == InitBestUrl /\ [][NextBestUrl]_vars

(***************************************************************************)
(* agents/crawler.py: _extract_structured_data, on strings of characters   *)
(***************************************************************************)
\* self.pharma_terms["phases"]
PhasePatterns ==
    <<
    [label |-> "Phase I",
     pattern |->
          << Lit(<<"P", "h", "a", "s", "e">>) \o Rep(Whitespace, 0) \o Lit(<<"I">>),
             Lit(<<"P", "h", "a", "s", "e">>) \o Rep(Whitespace, 0) \o Lit(<<"1">>),
             Lit(<<"P", "h", "a", "s", "e">>) \o Rep(Whitespace, 0) \o Lit(<<"I", "/", "I", "I">>),
             Lit(<<"P", "h", "a", "s", "e">>) \o Rep(Whitespace, 0) \o Lit(<<"1", "/", "2">>) >>],
    [label |-> "Phase II",
     pattern |->
          << Lit(<<"P", "h", "a", "s", "e">>) \o Rep(Whitespace, 0) \o Lit(<<"I", "I">>),
             Lit(<<"P", "h", "a", "s", "e">>) \o Rep(Whitespace, 0) \o Lit(<<"2">>),
             Lit(<<"P", "h", "a", "s", "e">>) \o Rep(Whitespace, 0) \o Lit(<<"I", "I", "/", "I", "I", "I">>),
             Lit(<<"P", "h", "a", "s", "e">>) \o Rep(Whitespace, 0) \o Lit(<<"2", "/", "3">>) >>],
    [label |-> "Phase III",
     pattern |->
          << Lit(<<"P", "h", "a", "s", "e">>) \o Rep(Whitespace, 0) \o Lit(<<"I", "I", "I">>),
             Lit(<<"P", "h", "a", "s", "e">>) \o Rep(Whitespace, 0) \o Lit(<<"3">>) >>],
    [label |-> "Pre-clinical",
     pattern |->
          << Lit(<<"P", "r", "e">>) \o Opt("-") \o Lit(<<"c", "l", "i", "n", "i", "c", "a", "l">>),
             Lit(<<"P", "r", "e", "c", "l", "i", "n", "i", "c", "a", "l">>),
             Lit(<<"P", "r", "e", "-", "I", "N", "D">>) >>],
    [label |-> "IND",
     pattern |->
          << Lit(<<"I", "N", "D">>) \o Rep(Whitespace \cup {"-"}, 0) \o Lit(<<"e", "n", "a", "b", "l", "e", "d">>),
             Lit(<<"I", "n", "v", "e", "s", "t", "i", "g", "a", "t", "i", "o", "n", "a", "l">>) \o Rep(Whitespace, 0) \o Lit(<<"N", "e", "w">>) \o Rep(Whitespace, 0) \o Lit(<<"D", "r", "u", "g">>),
             Lit(<<"I", "N", "D">>) \o Rep(Whitespace, 0) \o Lit(<<"a", "p", "p", "l", "i", "c", "a", "t", "i", "o", "n">>) >>],
    [label |-> "Approved",
     pattern |->
          << Lit(<<"A", "p", "p", "r", "o", "v", "e", "d">>),
             Lit(<<"F", "D", "A">>) \o Rep(Whitespace, 0) \o Lit(<<"a", "p", "p", "r", "o", "v", "e", "d">>),
             Lit(<<"E", "M", "A">>) \o Rep(Whitespace, 0) \o Lit(<<"a", "p", "p", "r", "o", "v", "e", "d">>),
             Lit(<<"M", "a", "r", "k", "e", "t", "i", "n", "g">>) \o Rep(Whitespace, 0) \o Lit(<<"A", "u", "t", "h", "o", "r", "i", "z", "a", "t", "i", "o", "n">>) >>]
    >>

\* self.pharma_terms["deal_types"]
DealTypePatterns ==
    <<
    [label |-> "partnership",
     pattern |->
          << Lit(<<"p", "a", "r", "t", "n", "e", "r", "s", "h", "i", "p">>),
             Lit(<<"c", "o", "l", "l", "a", "b", "o", "r", "a", "t", "i", "o", "n">>),
             Lit(<<"a", "l", "l", "i", "a", "n", "c", "e">>),
             Lit(<<"c", "o">>) \o Opt("-") \o Lit(<<"d", "e", "v", "e", "l", "o", "p", "m", "e", "n", "t">>),
             Lit(<<"j", "o", "i", "n", "t">>) \o Rep(Whitespace, 0) \o Lit(<<"v", "e", "n", "t", "u", "r", "e">>) >>],
    [label |-> "license",
     pattern |->
          << Lit(<<"l", "i", "c", "e", "n", "s", "e">>),
             Lit(<<"l", "i", "c", "e", "n", "s", "i", "n", "g">>),
             Lit(<<"r", "o", "y", "a", "l", "t", "y">>),
             Lit(<<"m", "i", "l", "e", "s", "t", "o", "n", "e">>),
             Lit(<<"t", "e", "c", "h", "n", "o", "l", "o", "g", "y">>) \o Rep(Whitespace, 0) \o Lit(<<"t", "r", "a", "n", "s", "f", "e", "r">>) >>],
    [label |-> "acquisition",
     pattern |->
          << Lit(<<"a", "c", "q", "u", "i", "r", "e">>),
             Lit(<<"a", "c", "q", "u", "i", "s", "i", "t", "i", "o", "n">>),
             Lit(<<"m", "e", "r", "g", "e", "r">>),
             Lit(<<"t", "a", "k", "e", "o", "v", "e", "r">>),
             Lit(<<"p", "u", "r", "c", "h", "a", "s", "e">>) >>],
    [label |-> "investment",
     pattern |->
          << Lit(<<"i", "n", "v", "e", "s", "t", "m", "e", "n", "t">>),
             Lit(<<"f", "u", "n", "d", "i", "n", "g">>),
             Lit(<<"f", "i", "n", "a", "n", "c", "i", "n", "g">>),
             Lit(<<"s", "e", "r", "i", "e", "s">>) \o Rep(Whitespace, 0) \o Cls({"A", "B", "C", "D", "E", "F"}),
             Lit(<<"v", "e", "n", "t", "u", "r", "e">>) \o Rep(Whitespace, 0) \o Lit(<<"c", "a", "p", "i", "t", "a", "l">>) >>]
    >>

\* self.pharma_terms["indications"]
IndicationPatterns ==
    <<
    [label |-> "cancer",
     pattern |->
          << Lit(<<"c", "a", "n", "c", "e", "r">>),
             Lit(<<"o", "n", "c", "o", "l", "o", "g", "y">>),
             Lit(<<"t", "u", "m", "o", "r">>),
             Lit(<<"m", "a", "l", "i", "g", "n", "a", "n", "t">>),
             Lit(<<"m", "e", "t", "a", "s", "t", "a", "t", "i", "c">>) >>],
    [label |-> "autoimmune",
     pattern |->
          << Lit(<<"a", "u", "t", "o", "i", "m", "m", "u", "n", "e">>),
             Lit(<<"i", "n", "f", "l", "a", "m", "m", "a", "t", "i", "o", "n">>),
             Lit(<<"r", "h", "e", "u", "m", "a", "t", "o", "i", "d">>),
             Lit(<<"a", "r", "t", "h", "r", "i", "t", "i", "s">>),
             Lit(<<"l", "u", "p", "u", "s">>) >>],
    [label |-> "neurological",
     pattern |->
          << Lit(<<"n", "e", "u", "r", "o", "l", "o", "g", "i", "c", "a", "l">>),
             Lit(<<"C", "N", "S">>),
             Lit(<<"b", "r", "a", "i", "n">>),
             Lit(<<"s", "p", "i", "n", "a", "l">>),
             Lit(<<"n", "e", "r", "v", "e">>) >>],
    [label |-> "infectious",
     pattern |->
          << Lit(<<"i", "n", "f", "e", "c", "t", "i", "o", "u", "s">>),
             Lit(<<"v", "i", "r", "a", "l">>),
             Lit(<<"b", "a", "c", "t", "e", "r", "i", "a", "l">>),
             Lit(<<"f", "u", "n", "g", "a", "l">>),
             Lit(<<"p", "a", "t", "h", "o", "g", "e", "n">>) >>],
    [label |-> "rare_disease",
     pattern |->
          << Lit(<<"r", "a", "r", "e">>) \o Rep(Whitespace, 0) \o Lit(<<"d", "i", "s", "e", "a", "s", "e">>),
             Lit(<<"o", "r", "p", "h", "a", "n">>) \o Rep(Whitespace, 0) \o Lit(<<"d", "r", "u", "g">>),
             Lit(<<"g", "e", "n", "e", "t", "i", "c">>) \o Rep(Whitespace, 0) \o Lit(<<"d", "i", "s", "o", "r", "d", "e", "r">>) >>]
    >>


\* the window _extract_structured_data passes to _get_context
window == 200

Max(a, b) == IF a >= b THEN a ELSE b
Min(a, b) == IF a <= b THEN a ELSE b

\* _get_context: text[max(0, position - window) : min(len(text), position + window)]
\* stripped; start is the 1-based place of position
_get_context(t, start, w) ==
    Strip(SubSeq(t, Max(0, start - 1 - w) + 1, Min(Len(t), start - 1 + w)))

\* _extract_partner: (?:with|by)\s+([A-Z][a-zA-Z\s&]+(?:Inc\.|LLC|Ltd\.|Corp\.)?)
PartnerLead == << Lit(<<"w", "i", "t", "h">>), Lit(<<"b", "y">>) >>
PartnerName == << Cls(UpperLetters) \o Rep(Letters \cup Whitespace \cup {"&"}, 1) >>
PartnerSuffix == << Lit(<<"I", "n", "c", ".">>), Lit(<<"L", "L", "C">>),
                    Lit(<<"L", "t", "d", ".">>), Lit(<<"C", "o", "r", "p", ".">>) >>
PartnerCompany == <<"P", "a", "r", "t", "n", "e", "r", " ", "C", "o", "m", "p", "a", "n", "y">>

\* lead\s+(name) with the whitespace between positions l and g: the longest such run
\* behind which name matches; <<start of the name, position behind it>>, <<0, 0>> for
\* none
RECURSIVE GroupAfterSpace(_, _, _, _)
GroupAfterSpace(str, l, g, name) ==
    IF g - l < 1 THEN <<0, 0>>
    ELSE LET e == MatchAlt(str, g, name, 1, FALSE)
         IN  IF e > 0 THEN <<g, e>> ELSE GroupAfterSpace(str, l, g - 1, name)

\* re.search for (?:lead)\s+(name), case-sensitive, from position i on
RECURSIVE SearchGroupFrom(_, _, _, _)
SearchGroupFrom(str, i, lead, name) ==
    IF i > Len(str) THEN <<0, 0>>
    ELSE LET l == MatchAlt(str, i, lead, 1, FALSE)
             m == IF l > 0
                  THEN GroupAfterSpace(str, l, RunEnd(str, l, Whitespace, FALSE), name)
                  ELSE <<0, 0>>
         IN  IF m[1] > 0 THEN m ELSE SearchGroupFrom(str, i + 1, lead, name)

_extract_partner(context) ==
    LET m == SearchGroupFrom(context, 1, PartnerLead, PartnerName)
        x == IF m[1] > 0 THEN MatchAlt(context, m[2], PartnerSuffix, 1, FALSE) ELSE 0
    IN  IF m[1] = 0 THEN PartnerCompany
        ELSE Strip(SubSeq(context, m[1], (IF x > 0 THEN x ELSE m[2]) - 1))

\* _extract_drug_name: the first of the four patterns that is found anywhere
DrugNamePatterns ==
    << << Cls(UpperLetters) \o Rep(LowerLetters, 1) \o Lit(<<"-">>) \o Rep(Digits, 1) >>,
       << Cls(UpperLetters) \o Rep(LowerLetters, 1) \o Rep(Digits, 1) >>,
       << Rep(UpperLetters, 2) \o Lit(<<"-">>) \o Rep(Digits, 1) >>,
       << Rep(UpperLetters, 2) \o Rep(Digits, 1) >> >>
Unknown == <<"U", "n", "k", "n", "o", "w", "n">>
RECURSIVE DrugNameFrom(_, _)
DrugNameFrom(context, k) ==
    IF k > Len(DrugNamePatterns) THEN Unknown
    ELSE LET m == SearchFrom(context, 1, DrugNamePatterns[k], FALSE)
         IN  IF m[1] > 0 THEN SubSeq(context, m[1], m[2] - 1)
             ELSE DrugNameFrom(context, k + 1)
_extract_drug_name(context) == DrugNameFrom(context, 1)

\* _extract_indication: (?:for|in)\s+([^.,]+)
IndicationLead == << Lit(<<"f", "o", "r">>), Lit(<<"i", "n">>) >>
IndicationName == << Rep(NotDotComma, 1) >>
_extract_indication(context) ==
    LET m == SearchGroupFrom(context, 1, IndicationLead, IndicationName)
    IN  IF m[1] = 0 THEN Unknown ELSE Strip(SubSeq(context, m[1], m[2] - 1))

\* the entries of one table: for every label with a match, one entry per match
\* MatchesOf keeping only the matches that end at the end of a word
MatchesOfWholeWord(t, row) ==
    SelectSeq(FindIter(t, row.pattern, TRUE),
              LAMBDA m : m[2] > Len(t) \/ t[m[2]] \notin Letters \cup Digits)

MatchesOf(t, row) == FindIter(t, row.pattern, TRUE)
LabelsFound(t, table) ==
    {table[k].label : k \in {j \in 1..Len(table) : MatchesOf(t, table[j]) # <<>>}}
RowOf(table, label) == table[CHOOSE k \in 1..Len(table) : table[k].label = label]

\* structured_data["deals"]
DealEntriesOf(t) ==
    [l \in LabelsFound(t, DealTypePatterns) |->
        LET ms == MatchesOf(t, RowOf(DealTypePatterns, l))
        IN  [j \in 1..Len(ms) |->
                LET context == _get_context(t, ms[j][1], window)
                IN  [partner |-> _extract_partner(context), context |-> context]]]

\* structured_data["phases"]
PhaseEntriesOf(t) ==
    [l \in LabelsFound(t, PhasePatterns) |->
        LET ms == MatchesOf(t, RowOf(PhasePatterns, l))
        IN  [j \in 1..Len(ms) |->
                LET context == _get_context(t, ms[j][1], window)
                IN  [drug_name |-> _extract_drug_name(context),
                     indication |-> _extract_indication(context),
                     context |-> context]]]

\* structured_data["indications"]
IndicationEntriesOf(t) ==
    [l \in LabelsFound(t, IndicationPatterns) |->
        LET ms == MatchesOf(t, RowOf(IndicationPatterns, l))
        IN  [j \in 1..Len(ms) |-> [context |-> _get_context(t, ms[j][1], window)]]]

\* _extract_structured_data
_extract_structured_data(t) ==
    [phases |-> PhaseEntriesOf(t),
     indications |-> IndicationEntriesOf(t),
     deals |-> DealEntriesOf(t)]

\* sentences of tests/test_crawler.py, shorter ones with a phase or a deal term, and
\* one without any term; a text is a sequence of at most MaxSentences of them
Sentences ==
    { << "W", "e", " ", "a", "n", "n", "o", "u", "n", "c", "e", "d", " ", "a", " ", "s",
         "t", "r", "a", "t", "e", "g", "i", "c", " ", "p", "a", "r", "t", "n", "e", "r",
         "s", "h", "i", "p", " ", "w", "i", "t", "h", " ", "C", "o", "m", "p", "a", "n",
         "y", " ", "X", ".", "\n" >>,
      << "O", "u", "r", " ", "l", "i", "c", "e", "n", "s", "i", "n", "g", " ", "a", "g",
         "r", "e", "e", "m", "e", "n", "t", " ", "w", "i", "t", "h", " ", "C", "o", "m",
         "p", "a", "n", "y", " ", "Y", " ", "w", "a", "s", " ", "s", "u", "c", "c", "e",
         "s", "s", "f", "u", "l", ".", "\n" >>,
      << "T", "h", "e", " ", "r", "e", "c", "e", "n", "t", " ", "a", "c", "q", "u", "i",
         "s", "i", "t", "i", "o", "n", " ", "o", "f", " ", "C", "o", "m", "p", "a", "n",
         "y", " ", "Z", " ", "s", "t", "r", "e", "n", "g", "t", "h", "e", "n", "s", " ",
         "o", "u", "r", " ", "p", "o", "r", "t", "f", "o", "l", "i", "o", ".", "\n" >>,
      << "P", "h", "a", "s", "e", " ", "I", "I", " ", "t", "r", "i", "a", "l", "s", " ",
         "f", "o", "r", " ", "c", "a", "n", "c", "e", "r", ".", "\n" >>,
      << "A", " ", "p", "r", "e", "-", "c", "l", "i", "n", "i", "c", "a", "l", " ", "c",
         "a", "n", "d", "i", "d", "a", "t", "e", ".", "\n" >>,
      << "N", "o", "t", "h", "i", "n", "g", " ", "t", "o", " ", "r", "e", "p", "o", "r",
         "t", ".", "\n" >>,
      << "I", "N", "D", "-", "e", "n", "a", "b", "l", "e", "d", " ", "p", "r", "o", "g",
         "r", "a", "m", " ", "b", "y", " ", "A", "c", "m", "e", " ", "I", "n", "c", ".",
         "\n" >>,
      << "p", "h", "a", "s", "e", " ", "3", " ", "d", "o", "n", "e", ".", "\n" >>,
      << "P", "h", "a", "s", "e", " ", "I", "I", "I", " ", "d", "a", "t", "a", ".", "\n" >> }
RECURSIVE Concat(_)
Concat(ss) == IF ss = <<>> THEN <<>> ELSE Head(ss) \o Concat(Tail(ss))
ExtractTexts == { Concat(ss) : ss \in UNION { [1..n -> Sentences] : n \in 0..MaxSentences } }

InitExtract ==
    /\ InitCrawler
    /\ MainIdle
    /\ DashIdle
    /\ NameIdle
    /\ ListIdle
    /\ DataIdle
    /\ UrlIdle
    /\ text \in ExtractTexts
    /\ arg = 0
    /\ textOut = <<>>
    /\ phase = "text"

\* _extract_information: structured_data = self._extract_structured_data(text)
ExtractStructured ==
    /\ phase = "text"
    /\ textOut' = _extract_structured_data(text)
    /\ phase' = "extracted"
    /\ UNCHANGED <<text, arg, nameVars, listVars, data, urlVars, crawlerVars, mainVars, dashVars>>

NextExtract == ExtractStructured

SpecExtract == InitExtract /\ [][NextExtract]_vars

(***************************************************************************)
(* agents/crawler.py: preprocess_press_release, on strings of single       *)
(* characters; "Acirc" is U+00C2, "circ" the combining U+0302 and "copy"   *)
(* U+00A9                                                                  *)
(***************************************************************************)
\* unicodedata.normalize('NFKD', .) on one character, and on a string
NFKDSym(c) == IF c = "Acirc" THEN <<"A", "circ">> ELSE <<c>>
RECURSIVE NFKD(_)
NFKD(s) == IF s = <<>> THEN <<>> ELSE NFKDSym(Head(s)) \o NFKD(Tail(s))

\* re.sub(pattern, ' ', str): every match of re.finditer replaced by one space
RECURSIVE SubFrom(_, _, _, _)
SubFrom(str, i, ms, k) ==
    IF k > Len(ms) THEN SubSeq(str, i, Len(str))
    ELSE SubSeq(str, i, ms[k][1] - 1) \o <<" ">> \o SubFrom(str, ms[k][2], ms, k + 1)
Sub(str, pattern, ic) == SubFrom(str, 1, FindIter(str, pattern, ic), 1)

\* re.sub with each pattern of a list in turn
RECURSIVE SubAll(_, _, _, _)
SubAll(str, patterns, k, ic) ==
    IF k > Len(patterns) \/ str = <<>> THEN str
    ELSE LET replaced == Sub(str, patterns[k], ic)
         IN  IF replaced = <<>> THEN <<>> ELSE SubAll(replaced, patterns, k + 1, ic)

\* [^>] and the dot; .*? stands before \n or (?=\n\n|\Z), which the dot cannot step
\* over, so the lazy and the greedy repetition end at the same place
NotGt == TextChars \ {">"}
NotNewline == TextChars \ {"\n"}
Dots == Rep(NotNewline, 0)
Newline == Lit(<<"\n">>)

\* <[^>]+> and &[a-z]+;
TagPattern == << Lit(<<"<">>) \o Rep(NotGt, 1) \o Lit(<<">">>) >>
EntityPattern == << Lit(<<"&">>) \o Rep(LowerLetters, 1) \o Lit(<<";">>) >>

\* _clean_common_artifacts
artifacts ==
    << << Lit(<< "F", "O", "R", " ", "I", "M", "M", "E", "D", "I", "A", "T", "E", " ", "R",
              "E", "L", "E", "A", "S", "E" >>) >>,
       << Lit(<< "F", "O", "R", " ", "R", "E", "L", "E", "A", "S", "E", " ", "U", "P", "O",
              "N", " ", "R", "E", "C", "E", "I", "P", "T" >>) >>,
       << Lit(<< "C", "O", "N", "T", "A", "C", "T", ":" >>) \o Dots \o Newline >>,
       << Lit(<< "M", "e", "d", "i", "a", " ", "C", "o", "n", "t", "a", "c", "t", ":" >>) \o Dots \o Newline >>,
       << Lit(<< "I", "n", "v", "e", "s", "t", "o", "r", " ", "C", "o", "n", "t", "a", "c",
              "t", ":" >>) \o Dots \o Newline >>,
       << Lit(<< "A", "b", "o", "u", "t" >>) \o Dots \o
             Lit(<< "C", "o", "m", "p", "a", "n", "y" >>) \o Dots \o Newline >>,
       << Lit(<< "F", "o", "r", "w", "a", "r", "d", "-", "L", "o", "o", "k", "i", "n", "g",
              " ", "S", "t", "a", "t", "e", "m", "e", "n", "t", "s" >>) \o Dots \o Newline >>,
       << Lit(<< "S", "O", "U", "R", "C", "E", ":" >>) \o Dots \o Newline >>,
       << Lit(<< "Acirc", "copy" >>) \o Dots \o Newline >>,
       << Lit(<< "A", "l", "l", " ", "r", "i", "g", "h", "t", "s", " ", "r", "e", "s", "e",
              "r", "v", "e", "d" >>) \o Dots \o Newline >> >>

_clean_common_artifacts(t) == SubAll(t, artifacts, 1, TRUE)

\* _remove_boilerplate_sections
sections ==
    << << Lit(<< "A", "b", "o", "u", "t", " ", "t", "h", "e", " ", "C", "o", "m", "p", "a",
              "n", "y" >>) \o Dots \o AheadBlankOrEnd >>,
       << Lit(<< "F", "o", "r", "w", "a", "r", "d", "-", "L", "o", "o", "k", "i", "n", "g",
              " ", "S", "t", "a", "t", "e", "m", "e", "n", "t", "s" >>) \o Dots \o AheadBlankOrEnd >>,
       << Lit(<< "I", "n", "v", "e", "s", "t", "o", "r", " ", "R", "e", "l", "a", "t", "i",
              "o", "n", "s" >>) \o Dots \o AheadBlankOrEnd >>,
       << Lit(<< "M", "e", "d", "i", "a", " ", "R", "e", "l", "a", "t", "i", "o", "n", "s" >>) \o Dots \o AheadBlankOrEnd >>,
       << Lit(<< "L", "e", "g", "a", "l", " ", "N", "o", "t", "i", "c", "e" >>) \o Dots \o AheadBlankOrEnd >> >>

_remove_boilerplate_sections(t) == SubAll(t, sections, 1, TRUE)

\* _extract_relevant_sections
key_terms ==
    << << Lit(<< "c", "l", "i", "n", "i", "c", "a", "l", " ", "t", "r", "i", "a", "l" >>) >>,
       << Lit(<< "p", "h", "a", "s", "e", " " >>) \o Cls({"1", "2", "3"}) >>,
       << Lit(<< "r", "e", "g", "u", "l", "a", "t", "o", "r", "y" >>) >>,
       << Lit(<< "a", "p", "p", "r", "o", "v", "a", "l" >>) >>,
       << Lit(<< "p", "a", "r", "t", "n", "e", "r", "s", "h", "i", "p" >>) >>,
       << Lit(<< "c", "o", "l", "l", "a", "b", "o", "r", "a", "t", "i", "o", "n" >>) >>,
       << Lit(<< "l", "i", "c", "e", "n", "s", "e" >>) >>,
       << Lit(<< "a", "c", "q", "u", "i", "s", "i", "t", "i", "o", "n" >>) >> >>

BlankLine == <<"\n", "\n">>

\* str.split(sep) for a separator of at least one character
RECURSIVE SplitOn(_, _, _)
SplitOn(s, sep, part) ==
    IF s = <<>> THEN <<part>>
    ELSE IF StartsAt(s, 1, sep)
         THEN <<part>> \o SplitOn(SubSeq(s, Len(sep) + 1, Len(s)), sep, <<>>)
         ELSE SplitOn(Tail(s), sep, Append(part, Head(s)))

\* any(re.search(term, paragraph, re.IGNORECASE) for term in key_terms)
HasKeyTerm(paragraph) ==
    \E k \in 1..Len(key_terms) : SearchFrom(paragraph, 1, key_terms[k], TRUE)[1] > 0

_extract_relevant_sections(t) ==
    LET paragraphs == SplitOn(t, BlankLine, <<>>)
        relevant_sections == SelectSeq(paragraphs, HasKeyTerm)
    IN  IF relevant_sections # <<>> THEN Join(relevant_sections, BlankLine) ELSE t

\* preprocess_press_release up to ' '.join(text.split())
CleanedText(t) ==
    LET tags == Sub(NFKD(t), TagPattern, FALSE)
        entities == Sub(tags, EntityPattern, FALSE)
        boilerplate == _remove_boilerplate_sections(_clean_common_artifacts(entities))
    IN  Join(Split(boilerplate), <<" ">>)

default_max_words == 500

preprocess_press_release(t) ==
    Strip(_truncate_text(_extract_relevant_sections(CleanedText(t)), default_max_words))

\* paragraphs of a press release, and the releases of at most MaxParagraphs of them
Paragraphs ==
    { << "P", "h", "a", "s", "e", " ", "2", " ", "t", "r", "i", "a", "l", "." >>,
      << "M", "e", "t", " ", "t", "h", "e", " ", "e", "n", "d", "p", "o", "i", "n", "t",
        "." >>,
      << "A", "b", "o", "u", "t", " ", "t", "h", "e", " ", "C", "o", "m", "p", "a", "n",
        "y", "\n", "W", "e", " ", "l", "e", "a", "d", "." >>,
      << "L", "e", "g", "a", "l", " ", "N", "o", "t", "i", "c", "e", ":", " ", "n", "o",
        "n", "e" >>,
      << "F", "O", "R", " ", "I", "M", "M", "E", "D", "I", "A", "T", "E", " ", "R", "E",
        "L", "E", "A", "S", "E" >>,
      << "<", "b", ">", "A", " ", "l", "i", "c", "e", "n", "s", "e", "<", "/", "b", ">",
        " ", "&", "a", "m", "p", ";", " ", "m", "o", "r", "e" >>,
      << "Acirc", "copy", " ", "A", "c", "m", "e", "\n", "S", "O", "U", "R", "C", "E", ":",
        " ", "X", "\n", "D", "o", "n", "e", "." >>,
      << "I", "n", "v", "e", "s", "t", "o", "r", " ", "R", "e", "l", "a", "t", "i", "o",
        "n", "s", "\n", "C", "a", "l", "l", " ", "u", "s", "." >> }

PressReleases ==
    { Join(ps, BlankLine) : ps \in UNION { [1..n -> Paragraphs] : n \in 0..MaxParagraphs } }

InitPreprocess ==
    /\ InitCrawler
    /\ MainIdle
    /\ DashIdle
    /\ NameIdle
    /\ ListIdle
    /\ DataIdle
    /\ UrlIdle
    /\ text \in PressReleases
    /\ arg = 0
    /\ textOut = <<>>
    /\ phase = "text"

\* preprocess_press_release(text)
Preprocess ==
    /\ phase = "text"
    /\ textOut' = preprocess_press_release(text)
    /\ phase' = "preprocessed"
    /\ UNCHANGED <<text, arg, nameVars, listVars, data, urlVars, crawlerVars, mainVars, dashVars>>

NextPreprocess == Preprocess

SpecPreprocess == InitPreprocess /\ [][NextPreprocess]_vars

(***************************************************************************)
(* Claims about CrawlerAgent.process and _make_request_with_retry          *)
(***************************************************************************)
\* the last fetch gave no 200 response, or the extraction from its body raises
FetchOrParseFailed ==
    \/ fetchRet.ret # "response"
    \/ fetchRet.status # 200
    \/ ~fetchRet.body.parseOk

\* C1: process never raises, whatever the input and the transport do; it returns a
\* record, a record with an 'error' key has no other key, and a failed fetch or
\* extraction always gives such a record.
C1_ProcessNeverRaises ==
    /\ result.status # "raised"
    /\ pc = "done" => result.status \in {"ok", "error"}
    /\ "error" \in result.keys => result.keys = {"error"}
    /\ result.status = "ok" => "error" \notin result.keys
    /\ pc = "done" /\ FetchOrParseFailed => result.keys = {"error"}

\* C1 witness: on the company-name path the transport threw an exception that is no
\* RequestException, and process returned an error-only record.
C1_Witness ==
    /\ pc = "done"
    /\ path = "company"
    /\ fetchRet.ret = "raised"
    /\ result.keys = {"error"}

\* C2: an input that fails the URL check (the empty string included) gets an error
\* record and causes no search query and no HTTP request.
C2_NoNetworkForNonUrl ==
    pc # "idle" /\ ~_is_url(input) =>
        /\ searches = 0
        /\ requests = 0
        /\ pc = "done" => "error" \in result.keys

\* C3 as claimed: one _make_request_with_retry call issues at most max_retries
\* requests, returns None when it got no response, and never raises.
C3_RetryNeverRaises ==
    /\ attempt <= max_retries
    /\ fetchRet.ret # "raised"
    /\ pc = "fetched" /\ fetchRet.ret # "response" => fetchRet.ret = "None"

\* C3 amended: one call issues at most max_retries requests and has returned by the
\* last of them; it returns None exactly after max_retries attempts that each ended
\* in a 403 or a requests exception; the only exception it lets out is one that is
\* no RequestException.
C3_RetryBounded ==
    /\ attempt <= max_retries
    /\ Len(sent) = attempt
    /\ pc = "fetch" => attempt < max_retries
    /\ fetchRet.ret = "None" => attempt = max_retries
    /\ fetchRet.ret = "raised" => fetchRet.msg \notin RequestsExceptions
    /\ pc = "fetched" => fetchRet.ret \in {"None", "response", "raised"}

\* C3 witness: three attempts, each a requests exception, and None came back.
C3_Witness ==
    /\ pc = "fetched"
    /\ fetchRet.ret = "None"
    /\ attempt = max_retries
    /\ n403 = 0

\* C4: 403, 403, 200: the third response is returned, process gives an error-free
\* record from its body (when the body can be extracted from), and the headers
\* sent on attempts 2 and 3 differ from those sent on attempt 1.
C4_RotatedHeadersDiffer ==
    (/\ pc \in {"fetched", "done"}
     /\ attempt = 3
     /\ n403 = 2
     /\ fetchRet.ret = "response"
     /\ fetchRet.status = 200)
    => /\ sent[2] # sent[1]
       /\ sent[3] # sent[1]
       /\ pc = "done" /\ fetchRet.body.parseOk => result.status = "ok"

\* C8: every error-free record has source_url, pipeline_info {phases, indications},
\* deal_info {partnerships, licenses, acquisitions, investments}, entities, raw_text.
C8_RecordKeys ==
    pc = "done" /\ result.status = "ok" =>
        /\ {"source_url", "pipeline_info", "deal_info", "entities", "raw_text"}
              \subseteq result.keys
        /\ {"phases", "indications"} \subseteq result.pipeline_keys
        /\ {"partnerships", "licenses", "acquisitions", "investments"}
              \subseteq result.deal_keys

\* C9: on the company-name path the first URL fetched is the one _find_best_url
\* ranks highest among the search results.
C9_FirstFetchIsBest ==
    path = "company" /\ requests >= 1 => firstUrl = _find_best_url(urls, company)

\* C10: a response with a status other than 2xx and 403 is retried: process reports
\* the status-code fetch error only after max_retries requests.
C10_Non2xxRetried ==
    (/\ pc = "done"
     /\ path = "url"
     /\ fetchRet.ret = "response"
     /\ fetchRet.status \notin {200, 403})
    => /\ result.keys = {"error"}
       /\ requests = max_retries

(***************************************************************************)
(* Claims about _clean_competitor_list and _clean_company_name             *)
(***************************************************************************)
\* the normalized name of raw entry i, NoneStr when the entry has none
NormalizedName(i) ==
    IF rawList[i].name \in {<<>>, NoneStr} THEN NoneStr
    ELSE _clean_company_name(rawList[i].name)

\* the raw entries that are the first with their normalized name
FirstOccurrences ==
    {i \in 1..Len(rawList) :
        /\ NormalizedName(i) # NoneStr
        /\ \A j \in 1..(i - 1) : NormalizedName(j) # NormalizedName(i)}

\* C5: the list _clean_competitor_list returns has no two entries with the same
\* normalized name.
C5_NoDuplicateNames ==
    phase = "cleaned" =>
        \A i, j \in 1..Len(cleanedList) :
            i # j => cleanedList[i].name # cleanedList[j].name

\* C5 witness: two raw entries with different raw names and the same normalized name
\* went in, and one entry with that name came out.
C5_Witness ==
    /\ phase = "cleaned"
    /\ \E i, j \in 1..Len(rawList) :
          /\ i < j
          /\ rawList[i].name # rawList[j].name
          /\ NormalizedName(i) # NoneStr
          /\ NormalizedName(i) = NormalizedName(j)
          /\ Cardinality({k \in 1..Len(cleanedList) :
                             cleanedList[k].name = NormalizedName(i)}) = 1

\* C6: the output holds, in input order, one entry per distinct non-empty normalized
\* name: the first raw entry with that name, with its deal_type, context and
\* confidence.
C6_FirstOccurrenceKept ==
    phase = "cleaned" =>
        /\ Len(cleanedList) = Cardinality(FirstOccurrences)
        /\ \A k \in 1..Len(cleanedList) :
              LET i == CHOOSE x \in FirstOccurrences :
                           Cardinality({y \in FirstOccurrences : y <= x}) = k
              IN  cleanedList[k] = [name |-> NormalizedName(i),
                                    deal_type |-> rawList[i].deal_type,
                                    context |-> rawList[i].context,
                                    confidence |-> rawList[i].confidence]

\* C6 witness: a later duplicate carries a higher confidence than the first entry
\* with that normalized name, and the output entry has the first one's confidence.
C6_Witness ==
    /\ phase = "cleaned"
    /\ \E i \in FirstOccurrences, j \in 1..Len(rawList) :
          /\ i < j
          /\ NormalizedName(j) = NormalizedName(i)
          /\ rawList[j].confidence > rawList[i].confidence
          /\ \E k \in 1..Len(cleanedList) :
                /\ cleanedList[k].name = NormalizedName(i)
                /\ cleanedList[k].confidence = rawList[i].confidence

\* C7: _clean_company_name is idempotent.
C7_CleanIdempotent ==
    phase = "cleaned" => cleanTwice = cleanOnce

(***************************************************************************)
(* Claims about the waits of _make_request_with_retry                      *)
(***************************************************************************)
\* positions of the timeline holding a request that was followed by another pass
RetriedGets ==
    {p \in 1..Len(timeline) :
        timeline[p].ev = "get" /\ \E q \in (p + 1)..Len(timeline) : timeline[q].ev = "get"}

\* C11: between attempts, the exponential backoff sleep of 2^k seconds (k the 0-based
\* index of the failed attempt) directly follows an attempt that ended in a timeout,
\* a connection error or another requests exception, and no backoff sleep follows an
\* attempt that ended in a 403: the next request comes after the start-of-pass
\* delay only. There are no other backoff sleeps.
C11_BackoffOnlyAfterError ==
    /\ \A p \in RetriedGets :
          IF timeline[p].end \in RequestsExceptions
          THEN /\ timeline[p + 1].ev = "sleep"
               /\ timeline[p + 1].end = "backoff"
               /\ timeline[p + 1].k = timeline[p].k
               /\ timeline[p + 1].lo = 2 ^ timeline[p].k
               /\ timeline[p + 1].hi = 2 ^ timeline[p].k
               /\ timeline[p + 2].end = "jitter"
               /\ timeline[p + 3].ev = "get"
          ELSE /\ timeline[p].end = "403"
               /\ timeline[p + 1].end = "jitter"
               /\ timeline[p + 2].ev = "get"
    /\ \A p \in 1..Len(timeline) :
          timeline[p].end = "backoff" =>
              /\ p > 1
              /\ timeline[p - 1].ev = "get"
              /\ timeline[p - 1].end \in RequestsExceptions
              /\ timeline[p - 1].k < max_retries - 1

\* C11 witness: in one call a timeout on attempt 0 was followed by the 1 second
\* backoff, a 403 on attempt 1 by no backoff, and attempt 2 was made.
C11_Witness ==
    /\ pc = "fetched"
    /\ attempt = 3
    /\ Len(timeline) = 6
    /\ timeline[1].end = "Timeout"
    /\ timeline[2].end = "backoff"
    /\ timeline[2].lo = 1
    /\ timeline[4].end = "403"
    /\ timeline[5].end = "jitter"
    /\ timeline[6].ev = "get"

(***************************************************************************)
(* Further claims about _clean_competitor_list                             *)
(***************************************************************************)
\* the raw entries whose normalized name is nm
EntriesNamed(nm) == {i \in 1..Len(rawList) : NormalizedName(i) = nm}

\* the raw entry C12 expects to survive for nm: highest confidence, the last of those
MergeWinner(nm) ==
    CHOOSE i \in EntriesNamed(nm) :
        \A j \in EntriesNamed(nm) :
            \/ rawList[j].confidence < rawList[i].confidence
            \/ rawList[j].confidence = rawList[i].confidence /\ j <= i

\* C12: of the raw entries with one normalized name, the output keeps the one with the
\* highest confidence (the last one among equal confidences).
C12_HighestConfidenceKept ==
    phase = "cleaned" =>
        \A k \in 1..Len(cleanedList) :
            LET w == rawList[MergeWinner(cleanedList[k].name)]
            IN  /\ cleanedList[k].confidence = w.confidence
                /\ cleanedList[k].deal_type = w.deal_type
                /\ cleanedList[k].context = w.context

\* the raw entries with a usable name: present, not empty, not normalizing to nothing
NamedEntries ==
    SelectSeq(rawList, LAMBDA c : /\ c.name \notin {<<>>, NoneStr}
                                  /\ _clean_company_name(c.name) # NoneStr)

\* C13: a raw competitor whose name is missing, empty or normalizes to the empty
\* string is not in the output, and the output is what the list without such entries
\* gives.
C13_NamelessDropped ==
    phase = "cleaned" =>
        /\ \A k \in 1..Len(cleanedList) : cleanedList[k].name \notin {<<>>, NoneStr}
        /\ cleanedList = _clean_competitor_list(NamedEntries)

\* C13 witness: an entry without a name key, or with an empty name, and one whose name
\* normalizes to nothing stand before an entry that is kept.
C13_Witness ==
    /\ phase = "cleaned"
    /\ Len(rawList) = 3
    /\ rawList[1].name \in {<<>>, NoneStr}
    /\ rawList[2].name = <<"C", "o", ".">>
    /\ Len(cleanedList) = 1
    /\ cleanedList[1].name = NormalizedName(3)

(***************************************************************************)
(* Claims about the names in the output of AnalystAgent.process            *)
(***************************************************************************)
\* the deals of the input, in any order
AllDeals == Range(data.partnerships) \cup Range(data.licenses) \cup Range(data.acquisitions)

C15_TruncateAtWordBoundary ==
    phase = "truncated" =>
        LET words == Split(text)
            kept == Split(textOut)
        IN  IF Len(words) <= arg THEN textOut = text
            ELSE /\ Len(kept) = arg
                 /\ \A i \in 1..(arg - 1) : kept[i] = words[i]
                 /\ kept[arg] = words[arg] \o Ellipsis

\* C15 witness: a text of three words on two lines, cut to two words.
C15_Witness ==
    /\ phase = "truncated"
    /\ text = <<"a", "a", "\n", "a", " ", "a">>
    /\ arg = 2
    /\ textOut = <<"a", "a", " ", "a", ".", ".", ".">>

(***************************************************************************)
(* Claims about _find_best_url                                             *)
(***************************************************************************)
\* C16: _find_best_url returns None for an empty list; otherwise it returns a URL of
\* the list whose score is maximal, the first such URL in list order.
C16_BestIsFirstMaximal ==
    phase = "ranked" =>
        IF urlList = <<>> THEN bestUrl = NoUrl
        ELSE \E i \in 1..Len(urlList) :
                /\ bestUrl = urlList[i]
                /\ \A j \in 1..Len(urlList) :
                      UrlScore(urlList[j], companyName) <= UrlScore(urlList[i], companyName)
                /\ \A j \in 1..(i - 1) :
                      UrlScore(urlList[j], companyName) < UrlScore(urlList[i], companyName)

\* C16 witness: two different URLs share the top score behind a lower-scored one, and
\* the one that stands first of the two is returned.
C16_Witness ==
    /\ phase = "ranked"
    /\ urlList = <<UBlog, UStat, UNews>>
    /\ companyName = <<"Acme">>
    /\ UrlScore(urlList[2], companyName) = UrlScore(urlList[3], companyName)
    /\ UrlScore(urlList[1], companyName) < UrlScore(urlList[2], companyName)
    /\ bestUrl = urlList[2]

\* the score as C17 states it: keywords are looked for in the path, domains and the
\* company name in the host
StatedScore(url, company_name) ==
    LET domain == Lower(url.host)
        low == Lower(url.path)
        hits == {k \in 1..Len(WEBSITE_PATTERNS) : Contains(low, WEBSITE_PATTERNS[k])}
    IN  (IF \E d \in NEWS_DOMAINS : Contains(domain, d) THEN URL_SCORING.news_domain ELSE 0)
      + (IF \E q \in PressReleasePatterns : Contains(low, q)
         THEN URL_SCORING.press_release ELSE 0)
      + (IF Contains(domain, Lower(company_name)) THEN URL_SCORING.company_domain ELSE 0)
      + Cardinality(hits) * URL_SCORING.pipeline_page
      + (IF \E x \in BIOTECH_DOMAINS : Contains(domain, x)
         THEN URL_SCORING.biotech_domain ELSE 0)

\* C17: the score of a URL is the sum of the news weight (host is a news domain), the
\* press-release weight (path has a press-release/news keyword), the company weight
\* (host contains the company name), the pipeline weight once per pipeline keyword in
\* the path, and the biotech weight (host matches a biotech domain); nothing else
\* contributes.
C17_ScoreIsSumOfParts ==
    phase = "ranked" =>
        \A i \in 1..Len(urlList) :
            UrlScore(urlList[i], companyName) = StatedScore(urlList[i], companyName)

(***************************************************************************)
(* Claims about _extract_structured_data                                   *)
(***************************************************************************)
\* the text has a case-insensitive match of one of the alternatives of pattern
HasMatch(t, pattern) ==
    \E i \in 1..Len(t), a \in 1..Len(pattern) : MatchItems(t, i, pattern[a], 1, TRUE) > 0

\* label has at least one entry in the mapping
HasEntries(mapping, label) == label \in DOMAIN mapping /\ Len(mapping[label]) >= 1

\* C18: for every label of the phase, deal-type and indication tables the returned
\* mapping has the label with at least one entry exactly when the text has a
\* case-insensitive match of the label's pattern; a label without a match is absent.
C18_LabelIffMatch ==
    phase = "extracted" =>
        /\ \A k \in 1..Len(PhasePatterns) :
              /\ HasEntries(textOut.phases, PhasePatterns[k].label)
                    <=> HasMatch(text, PhasePatterns[k].pattern)
              /\ PhasePatterns[k].label \in DOMAIN textOut.phases
                    => HasMatch(text, PhasePatterns[k].pattern)
        /\ \A k \in 1..Len(DealTypePatterns) :
              /\ HasEntries(textOut.deals, DealTypePatterns[k].label)
                    <=> HasMatch(text, DealTypePatterns[k].pattern)
              /\ DealTypePatterns[k].label \in DOMAIN textOut.deals
                    => HasMatch(text, DealTypePatterns[k].pattern)
        /\ \A k \in 1..Len(IndicationPatterns) :
              /\ HasEntries(textOut.indications, IndicationPatterns[k].label)
                    <=> HasMatch(text, IndicationPatterns[k].pattern)
              /\ IndicationPatterns[k].label \in DOMAIN textOut.indications
                    => HasMatch(text, IndicationPatterns[k].pattern)

\* C18 witness: a text with 'Phase II' and, in lower case, 'phase 3': both labels have
\* entries, Approved has none.
C18_Witness ==
    /\ phase = "extracted"
    /\ Contains(text, <<"P", "h", "a", "s", "e", " ", "I", "I", " ">>)
    /\ Contains(text, <<"p", "h", "a", "s", "e", " ", "3">>)
    /\ HasEntries(textOut.phases, "Phase II")
    /\ HasEntries(textOut.phases, "Phase III")
    /\ HasEntries(textOut.indications, "cancer")
    /\ "Approved" \notin DOMAIN textOut.phases

\* the first entry of deal type label names the company as (part of) its partner
FirstPartnerNames(label, named) ==
    /\ HasEntries(textOut.deals, label)
    /\ Contains(textOut.deals[label][1].partner, named)

\* C19: in a text with several deal sentences that each name another company, the
\* first entry of every deal type has the company of that deal's own sentence as its
\* partner: Company X for the partnership, Company Y for the license, Company Z for
\* the acquisition.
C19_PartnerOfOwnSentence ==
    LET partnership == Contains(text, <<"p", "a", "r", "t", "n", "e", "r", "s", "h", "i", "p", " ", "w", "i", "t", "h", " ", "C", "o", "m", "p", "a", "n", "y", " ", "X">>)
        license == Contains(text, <<"l", "i", "c", "e", "n", "s", "i", "n", "g", " ", "a", "g", "r", "e", "e", "m", "e", "n", "t", " ", "w", "i", "t", "h", " ", "C", "o", "m", "p", "a", "n", "y", " ", "Y">>)
        acquisition == Contains(text, <<"a", "c", "q", "u", "i", "s", "i", "t", "i", "o", "n", " ", "o", "f", " ", "C", "o", "m", "p", "a", "n", "y", " ", "Z">>)
        several == (partnership /\ license) \/ (partnership /\ acquisition)
                      \/ (license /\ acquisition)
    IN  phase = "extracted" /\ several =>
            /\ partnership => FirstPartnerNames("partnership", <<"C", "o", "m", "p", "a", "n", "y", " ", "X">>)
            /\ license => FirstPartnerNames("license", <<"C", "o", "m", "p", "a", "n", "y", " ", "Y">>)
            /\ acquisition => FirstPartnerNames("acquisition", <<"C", "o", "m", "p", "a", "n", "y", " ", "Z">>)

(***************************************************************************)
(* Claims about preprocess_press_release                                   *)
(***************************************************************************)
\* the blank-line-separated blocks of the input, and those that hold a key term
InputParagraphs == SplitOn(text, BlankLine, <<>>)
KeyTermParagraphs == {i \in 1..Len(InputParagraphs) : HasKeyTerm(InputParagraphs[i])}

\* C20: preprocess_press_release keeps only the paragraphs of its input that contain a
\* key term and drops the others: when some paragraph has a key term, the cleaned
\* words of a paragraph without one (unless a kept paragraph has the same words) are
\* not in the result; only when no paragraph has a key term is the whole cleaned text
\* kept.
C20_OnlyKeyTermParagraphsKept ==
    phase = "preprocessed" =>
        IF KeyTermParagraphs = {}
        THEN textOut = Strip(_truncate_text(CleanedText(text), default_max_words))
        ELSE \A i \in (1..Len(InputParagraphs)) \ KeyTermParagraphs :
                LET words == CleanedText(InputParagraphs[i])
                IN  (/\ words # <<>>
                     /\ \A j \in KeyTermParagraphs :
                            ~Contains(CleanedText(InputParagraphs[j]), words))
                        => ~Contains(textOut, words)

\* the headings of the boilerplate sections
SectionHeadings ==
    { << "A", "b", "o", "u", "t", " ", "t", "h", "e", " ", "C", "o", "m", "p", "a", "n",
        "y" >>,
      << "F", "o", "r", "w", "a", "r", "d", "-", "L", "o", "o", "k", "i", "n", "g", " ",
        "S", "t", "a", "t", "e", "m", "e", "n", "t", "s" >>,
      << "I", "n", "v", "e", "s", "t", "o", "r", " ", "R", "e", "l", "a", "t", "i", "o",
        "n", "s" >>,
      << "M", "e", "d", "i", "a", " ", "R", "e", "l", "a", "t", "i", "o", "n", "s" >>,
      << "L", "e", "g", "a", "l", " ", "N", "o", "t", "i", "c", "e" >> }

\* the lines of a section: from position k of a paragraph to the paragraph's end
SectionLines(p, k) == SplitOn(SubSeq(p, k, Len(p)), <<"\n">>, <<>>)

\* C21: preprocess_press_release removes every named boilerplate section from its
\* heading up to the next blank line: neither the heading nor any line of the section
\* before that blank line appears in the result.
C21_SectionsRemoved ==
    phase = "preprocessed" =>
        \A i \in 1..Len(InputParagraphs) : \A h \in SectionHeadings :
            \A k \in 1..Len(InputParagraphs[i]) :
                StartsAt(Lower(InputParagraphs[i]), k, Lower(h)) =>
                    /\ ~Contains(Lower(textOut), Lower(h))
                    /\ \A l \in 1..Len(SectionLines(InputParagraphs[i], k)) :
                           LET words == Join(Split(SectionLines(InputParagraphs[i], k)[l]), <<" ">>)
                           IN  words # <<>> => ~Contains(textOut, words)

(***************************************************************************)
(* Claims about error records, session state and the company-name path     *)
(***************************************************************************)
\* the requests of the timeline, and the message of the exception a request ended in
GetEvents == SelectSeq(timeline, LAMBDA e : e.ev = "get")
ExceptionKinds == RequestsExceptions \cup {"Exception"}
ExceptionMessage(kind) == (CHOOSE o \in Outcomes : o.kind = kind).msg

\* C22: when the transport raised while the URL was fetched (the last request of the
\* call ended in an exception, of whatever kind), process returns an error record
\* whose message contains the message of that exception.
C22_ErrorCarriesMessage ==
    (/\ pc = "done"
     /\ GetEvents # <<>>
     /\ GetEvents[Len(GetEvents)].end \in ExceptionKinds)
        => /\ result.status = "error"
           /\ ExceptionMessage(GetEvents[Len(GetEvents)].end) \in Range(result.error)

\* C23: nothing set during one process call carries over to the next: before a
\* process call has sent its first request, the session's headers other than the
\* User-Agent equal the configured defaults, whatever earlier calls received.
C23_HeadersResetPerCall ==
    (pc \in {"search", "fetch"} /\ requests = 0)
        => /\ headers.Accept = DefaultHeaders.Accept
           /\ headers.Referer = DefaultHeaders.Referer

\* the company-name path fetched urls in list order with at most max_retries
\* requests each, and the URL it is at answered 200 if the call is over with a record
\* taken from a response
CompanyPathInOrder ==
    /\ attempt <= max_retries
    /\ requests >= 1 => firstUrl = urls[1]
    /\ pc \in {"fetch", "fetched"} =>
          /\ urlIdx \in 1..Len(urls)
          /\ requests <= max_retries * (urlIdx - 1) + attempt
    /\ requests <= max_retries * Len(urls)

\* the last _make_request_with_retry call came back with a response of status 200
Answered200 == fetchRet.ret = "response" /\ fetchRet.status = 200

PhaseMentions == FindIter(text, << Lit(<<"p", "h", "a", "s", "e">>) >>, TRUE)
EntriesUnder(label) ==
    IF label \in DOMAIN textOut.phases THEN Len(textOut.phases[label]) ELSE 0

\* C30: the phase patterns are matched independently and unanchored: a text whose
\* single phase mention is 'Phase III' has one entry under each of 'Phase I',
\* 'Phase II' and 'Phase III', and a text whose single phase mention is 'Phase II'
\* has one entry under 'Phase I' and one under 'Phase II'.
C30_PrefixLabelsCounted ==
    (phase = "extracted" /\ Len(PhaseMentions) = 1) =>
        LET behind == PhaseMentions[1][2]
        IN  /\ StartsAt(text, behind, <<" ", "I", "I", "I">>) =>
                  /\ EntriesUnder("Phase I") = 1
                  /\ EntriesUnder("Phase II") = 1
                  /\ EntriesUnder("Phase III") = 1
            /\ (/\ StartsAt(text, behind, <<" ", "I", "I">>)
                /\ ~StartsAt(text, behind, <<" ", "I", "I", "I">>)) =>
                  /\ EntriesUnder("Phase I") = 1
                  /\ EntriesUnder("Phase II") = 1
                  /\ EntriesUnder("Phase III") = 0

\* C30 witness: the one phase mention of the text is 'Phase III' and each of the
\* three labels has its entry.
C30_Witness ==
    /\ phase = "extracted"
    /\ Len(PhaseMentions) = 1
    /\ StartsAt(text, PhaseMentions[1][1], <<"P", "h", "a", "s", "e", " ", "I", "I", "I">>)
    /\ EntriesUnder("Phase I") = 1
    /\ EntriesUnder("Phase II") = 1
    /\ EntriesUnder("Phase III") = 1

(***************************************************************************)
(* main.py: process_opportunity, the three agents called one after another *)
(***************************************************************************)
\* the dictionary AnalystAgent.process returns at the end of its try block
AnalysisRecord ==
    [status |-> "ok",
     keys |-> {"therapeutic_areas", "mechanisms_of_action", "competitors", "deals",
               "market_size", "growth_rate", "key_trends", "risk_factors"},
     pipeline_keys |-> {}, deal_keys |-> {}, error |-> <<>>, url |-> NoUrl]

\* the dictionary AdvisorAgent.process returns
ReportRecord ==
    [status |-> "ok", keys |-> {"success", "data"}, pipeline_keys |-> {},
     deal_keys |-> {}, error |-> <<>>, url |-> NoUrl]

\* message of an exception one of the analyst's models or detectors raised
AnalysisFailure == "analysis step failed"
\* str(KeyError("phases"))
PhasesKeyError == "'phases'"
\* message of the TypeError of a call that leaves out analyst_data
MissingArgument == "process() missing 1 required positional argument: 'analyst_data'"

\* _extract_competitors, lines 349-350: data["pipeline_info"]["phases"] is read
\* whenever data has pipeline_info
PipelinePhasesRead(input_data) ==
    IF "pipeline_info" \in input_data.keys /\ "phases" \notin input_data.pipeline_keys
    THEN Raised(PhasesKeyError)
    ELSE AnalysisRecord

\* AnalystAgent.process: works says whether the models and detectors it calls
\* went through; every exception becomes an error record
AnalystProcess(input_data, works) ==
    LET r == IF works THEN PipelinePhasesRead(input_data) ELSE Raised(AnalysisFailure)
    IN  IF r.status = "raised" THEN ErrorRecord(<<r.error[1]>>) ELSE r

\* AdvisorAgent.process(crawler_data, analyst_data) called with the arguments args
AdvisorProcess(args) ==
    IF Len(args) = 2 THEN ReportRecord ELSE Raised(MissingArgument)

InitMain ==
    /\ InitCrawler /\ NameIdle /\ ListIdle /\ DataIdle /\ TextIdle /\ UrlIdle /\ DashIdle
    /\ stage = "start"
    /\ extracted_info = NoResult
    /\ analysis = NoResult
    /\ report = NoResult
    /\ saved = FALSE
    /\ phase = "main"

\* line 36, the call: the crawler of this run is new and is called once
CrawlerProcess(i) ==
    /\ stage = "start"
    /\ pc = "idle"
    /\ Process(i)

\* lines 36-40: crawler.process returned
CrawlerReturned ==
    /\ stage = "start"
    /\ pc = "done"
    /\ extracted_info' = result
    /\ stage' = IF "error" \in result.keys THEN "returned" ELSE "crawled"
    /\ UNCHANGED <<analysis, report, saved, crawlerVars, nameVars, listVars, data,
                   textVars, urlVars, phase, dashVars>>

\* lines 44-48
Analyse(works) ==
    /\ stage = "crawled"
    /\ analysis' = AnalystProcess(extracted_info, works)
    /\ stage' = IF "error" \in analysis'.keys THEN "returned" ELSE "analysed"
    /\ UNCHANGED <<extracted_info, report, saved, crawlerVars, nameVars, listVars, data,
                   textVars, urlVars, phase, dashVars>>

\* lines 52-60: the advisor is given the analysis alone; an exception leaves
\* process_opportunity, an error record ends it, anything else is saved
AdviseAndSave ==
    /\ stage = "analysed"
    /\ LET r == AdvisorProcess(<<analysis>>)
       IN  IF r.status = "raised"
           THEN /\ stage' = "raised"
                /\ UNCHANGED <<report, saved>>
           ELSE IF "error" \in r.keys
           THEN /\ stage' = "returned"
                /\ report' = r
                /\ UNCHANGED saved
           ELSE /\ stage' = "saved"
                /\ report' = r
                /\ saved' = TRUE
    /\ UNCHANGED <<extracted_info, analysis, crawlerVars, nameVars, listVars, data,
                   textVars, urlVars, phase, dashVars>>

NextMain ==
    \/ \E i \in Inputs : CrawlerProcess(i)
    \/ \E r \in SearchResults : SearchQuery(r)
    \/ AttemptForbidden
    \/ AttemptResponse
    \/ AttemptRequestsError
    \/ AttemptOtherError
    \/ UrlReturn
    \/ CompanyReturn
    \/ CrawlerReturned
    \/ \E works \in BOOLEAN : Analyse(works)
    \/ AdviseAndSave

SpecMain == InitMain /\ [][NextMain]_vars

\* process_opportunity is over
Ended == stage \in {"returned", "raised", "saved"}

\* C24: every error-free record of CrawlerAgent.process, given unchanged to
\* AnalystAgent.process, yields an analysis without an 'error' key (as long as
\* the analyst's own models and detectors went through)
C24_CrawlerRecordsAccepted ==
    (analysis # NoResult /\ "error" \notin extracted_info.keys)
        => ("error" \notin analysis.keys \/ analysis.error = <<AnalysisFailure>>)

\* the URL path's records are accepted
C24_UrlPathAccepted ==
    (analysis # NoResult /\ path = "url")
        => ("error" \notin analysis.keys \/ analysis.error = <<AnalysisFailure>>)

C28_NeverSaved == ~saved

(***************************************************************************)
(* market_pulse_app.py: the dashboard's callbacks start_analysis and       *)
(* update_progress. The browser holds the store; every callback is given   *)
(* the store as it is when the callback is requested, and its answer       *)
(* replaces the store when it arrives.                                     *)
(***************************************************************************)
\* agent_1_crawler: ok says whether crawler_agent.process gave a usable record
agent_1_crawler(ok) == ok

\* agent_2_analyst: fails at once without a successful crawler_data
agent_2_analyst(crawler_data, ok) == crawler_data /\ ok

\* agent_3_advisor: fails at once unless both inputs carry success
agent_3_advisor(crawler_data, analyst_data, ok) == crawler_data /\ analyst_data /\ ok

\* start_analysis starting every run without a report
start_analysis_fresh(clicks, blank, current_state, now) ==
    IF clicks = 0 \/ blank
    THEN [state |-> current_state, disabled |-> TRUE]
    ELSE IF current_state.is_running
    THEN [state |-> current_state, disabled |-> FALSE]
    ELSE [state |-> [is_running |-> TRUE, current_agent |-> 1, error_message |-> "None",
                     report_html |-> 0, start_time |-> now,
                     crawler_data |-> FALSE, analyst_data |-> FALSE],
          disabled |-> FALSE]

\* start_analysis: the new store and the interval's disabled flag; now is
\* time.time(), blank says that the input field is empty or whitespace
start_analysis(clicks, blank, current_state, now) ==
    IF clicks = 0 \/ blank
    THEN [state |-> current_state, disabled |-> TRUE]
    ELSE IF current_state.is_running
    THEN [state |-> current_state, disabled |-> FALSE]
    ELSE [state |-> [is_running |-> TRUE, current_agent |-> 1, error_message |-> "None",
                     report_html |-> current_state.report_html, start_time |-> now,
                     crawler_data |-> FALSE, analyst_data |-> FALSE],
          disabled |-> FALSE]

\* the agent a call of update_progress on state runs, 0 when it runs none
AgentRun(state) ==
    IF state.is_running /\ state.current_agent \in 1..3 THEN state.current_agent ELSE 0

\* the failure branch of an agent of update_progress
Failed(state) == [state EXCEPT !.error_message = "error", !.is_running = FALSE]

\* update_progress: the state it returns, the three step classes and the report
\* it puts into report-content (0 for none)
update_progress(state, ok) ==
    IF ~state.is_running
    THEN IF state.report_html # 0
         THEN [state |-> state, classes |-> AllCompleted, report |-> state.report_html]
         ELSE [state |-> state, classes |-> AllPending, report |-> 0]
    ELSE IF state.current_agent = 1
    THEN IF agent_1_crawler(ok)
         THEN [state |-> [state EXCEPT !.crawler_data = TRUE, !.current_agent = 2],
               classes |-> <<"active", "pending", "pending">>, report |-> 0]
         ELSE [state |-> Failed(state),
               classes |-> <<"error", "pending", "pending">>, report |-> 0]
    ELSE IF state.current_agent = 2
    THEN IF agent_2_analyst(state.crawler_data, ok)
         THEN [state |-> [state EXCEPT !.analyst_data = TRUE, !.current_agent = 3],
               classes |-> <<"completed", "active", "pending">>, report |-> 0]
         ELSE [state |-> Failed(state),
               classes |-> <<"completed", "error", "pending">>, report |-> 0]
    ELSE IF state.current_agent = 3
    THEN IF agent_3_advisor(state.crawler_data, state.analyst_data, ok)
         THEN [state |-> [state EXCEPT !.report_html = state.start_time,
                                       !.is_running = FALSE],
               classes |-> AllCompleted, report |-> state.start_time]
         ELSE [state |-> Failed(state),
               classes |-> <<"completed", "completed", "error">>, report |-> 0]
    ELSE [state |-> state, classes |-> AllPending, report |-> 0]

\* executions after a call of update_progress on state
Executed(state) ==
    IF AgentRun(state) = 0 THEN executions
    ELSE [executions EXCEPT ![state.start_time][AgentRun(state)] = TRUE]

\* s without its i-th element
RemoveAt(s, i) == SubSeq(s, 1, i - 1) \o SubSeq(s, i + 1, Len(s))

InitDash ==
    /\ InitCrawler /\ NameIdle /\ ListIdle /\ DataIdle /\ TextIdle /\ UrlIdle /\ MainIdle
    /\ DashIdle
    /\ phase = "dashboard"

\* a click on Analyze: start_analysis runs on the store as it is
AnalyzeClick(blank) ==
    /\ phase = "dashboard"
    /\ n_clicks < MaxClicks
    /\ n_clicks' = n_clicks + 1
    /\ LET r == start_analysis(n_clicks', blank, analysis_store, n_clicks')
       IN  /\ analysis_store' = r.state
           /\ interval_disabled' = r.disabled
    /\ UNCHANGED <<in_flight, display, executions, crawlerVars, nameVars, listVars, data,
                   textVars, urlVars, phase, mainVars>>

\* the interval fires: update_progress is requested with the store of this moment
TickRequest ==
    /\ phase = "dashboard"
    /\ ~interval_disabled
    /\ Len(in_flight) < MaxInFlight
    /\ in_flight' = Append(in_flight, analysis_store)
    /\ UNCHANGED <<analysis_store, n_clicks, interval_disabled, display, executions,
                   crawlerVars, nameVars, listVars, data, textVars, urlVars, phase,
                   mainVars>>

\* a requested update_progress runs and its answer is applied
TickResponse(i, ok) ==
    /\ phase = "dashboard"
    /\ i \in 1..Len(in_flight)
    /\ LET r == update_progress(in_flight[i], ok)
       IN  /\ analysis_store' = r.state
           /\ display' = [classes |-> r.classes, report |-> r.report]
    /\ executions' = Executed(in_flight[i])
    /\ in_flight' = RemoveAt(in_flight, i)
    /\ UNCHANGED <<n_clicks, interval_disabled, crawlerVars, nameVars, listVars, data,
                   textVars, urlVars, phase, mainVars>>

\* a requested update_progress runs, but a newer request is out already and the
\* page drops the answer of the older one
TickDiscarded(i) ==
    /\ phase = "dashboard"
    /\ i \in 1..(Len(in_flight) - 1)
    /\ executions' = Executed(in_flight[i])
    /\ in_flight' = RemoveAt(in_flight, i)
    /\ UNCHANGED <<analysis_store, display, n_clicks, interval_disabled, crawlerVars,
                   nameVars, listVars, data, textVars, urlVars, phase, mainVars>>

NextDash ==
    \/ \E blank \in BOOLEAN : AnalyzeClick(blank)
    \/ TickRequest
    \/ \E i \in 1..MaxInFlight, ok \in BOOLEAN : TickResponse(i, ok)
    \/ \E i \in 1..MaxInFlight : TickDiscarded(i)

SpecDash == InitDash /\ [][NextDash]_vars

\* this step is a call of update_progress that runs agent k for run r: the call
\* leaves in_flight, whether its answer is applied or dropped
AgentExecuted(r, k) ==
    \E i \in 1..Len(in_flight) :
        /\ in_flight' = RemoveAt(in_flight, i)
        /\ in_flight[i].start_time = r
        /\ AgentRun(in_flight[i]) = k

\* C27: within one run each of the three agents is executed at most once, also
\* when a tick fires while the callback of an earlier tick is still running and
\* when Analyze is clicked again during the run
C27_AgentsRunOncePerRun ==
    [][\A r \in 1..MaxClicks : \A k \in 1..3 :
           AgentExecuted(r, k) => ~executions[r][k]]_vars

\* current_agent stays or moves one step up while the store belongs to the same run
AgentMovesOneStep ==
    analysis_store'.start_time = analysis_store.start_time
        => analysis_store'.current_agent \in
               {analysis_store.current_agent, analysis_store.current_agent + 1}

\* agent k+1 is current or has run only with the success of agent k of that run
AgentsInOrder ==
    /\ analysis_store'.current_agent >= 2 => analysis_store'.crawler_data
    /\ analysis_store'.current_agent >= 3 => analysis_store'.analyst_data
    /\ \A r \in 1..MaxClicks : \A k \in 1..2 :
           executions'[r][k + 1] => executions'[r][k]

\* a failure stops the run, and no agent runs while the stored run is stopped
StoppedRunsNothing ==
    /\ analysis_store'.error_message # "None" => ~analysis_store'.is_running
    /\ ~analysis_store.is_running =>
           \A r \in 1..MaxClicks : \A k \in 1..3 : ~AgentExecuted(r, k)

\* C26: over any sequence of Analyze clicks and progress ticks current_agent only
\* moves 1 to 2 to 3, one step per tick; agent k+1 runs only after agent k
\* succeeded in the same run; the first failing agent sets is_running to false and
\* error_message, and no further agent runs until a new run is started
C26_AgentsStepInOrder ==
    [][AgentMovesOneStep /\ AgentsInOrder /\ StoppedRunsNothing]_vars

C26_OneStep == [][AgentMovesOneStep]_vars
C26_InOrder == [][AgentsInOrder]_vars
C26_Stopped == [][StoppedRunsNothing]_vars

\* a stored state of a run that failed while the report of an earlier run is kept
FailedWithReport(state) ==
    /\ ~state.is_running
    /\ state.error_message # "None"
    /\ state.report_html # 0

\* a click on Analyze that starts a run
RunStarted ==
    /\ n_clicks' = n_clicks + 1
    /\ analysis_store'.start_time = n_clicks'

\* the only update_progress in flight is answered
LoneTickAnswered == Len(in_flight) = 1 /\ in_flight' = <<>>

\* C29: starting a new run keeps the report_html of the previous successful run
\* in the state, and when the new run has failed the next progress tick shows
\* that report with all three agents completed instead of the failure
C29_PreviousReportShown ==
    [][/\ RunStarted =>
              /\ analysis_store'.is_running
              /\ analysis_store'.report_html = analysis_store.report_html
       /\ (LoneTickAnswered /\ FailedWithReport(in_flight[1])) =>
              /\ display' = [classes |-> AllCompleted,
                             report |-> in_flight[1].report_html]
              /\ analysis_store' = in_flight[1]]_vars

\* a failed second run is shown as the completed report of the first one
C29_Witness ==
    /\ FailedWithReport(analysis_store)
    /\ analysis_store.start_time > analysis_store.report_html
    /\ in_flight = <<>>
    /\ display = [classes |-> AllCompleted, report |-> analysis_store.report_html]

====
